---- MODULE Spec2Model ----
(***************************************************************************)
(* Transaction coordination core of effect-prisma: withTransaction,       *)
(* the PrismaService (fiber-local client, exec, withClient), the global   *)
(* transaction config and the retry schedule.                              *)
(***************************************************************************)
EXTENDS Integers, Sequences, FiniteSets, TLC

(***************************************************************************)
(* Bounds of the model.                                                    *)
(***************************************************************************)
\* number of logical tasks (root fibers) that may call withTransaction
NumTasks == 2
\* largest value of `retries` passed to configureTransactions
MaxRetries == 1
\* largest number of recurrences of a caller-supplied retryPolicy
MaxCustomRecurs == 1
\* number of exec calls in one run of the unit of work
MaxOps == 1
\* depth of nested withTransaction calls inside one unit of work
MaxDepth == 2
\* number of configureTransactions calls kept on record
MaxConfigCalls == 2
\* nested withClient scopes open at once on one fiber
MaxScopeDepth == 2
\* number of PrismaLiveScoped scopes (one client each)
NumScopes == 2

(***************************************************************************)
(* Program constants.                                                      *)
(***************************************************************************)
DefaultRetries == 3
DefaultBaseDelay == 50
\* Schedule.exponential's default growth factor
ExponentialFactor == 2
\* Schedule.jittered draws a factor of at least 80% and below 120%
JitterMin == 80
JitterMax == 120
\* option values of the repository's tests
TimeoutValue == 30000
MaxWaitValue == 5000

Tasks == 1..NumTasks
Scopes == 1..NumScopes

(***************************************************************************)
(* Strings the code inspects character by character (regular expression   *)
(* tests) are tuples of one-character strings.                             *)
(***************************************************************************)
UpperCase == <<"A","B","C","D","E","F","G","H","I","J","K","L","M",
               "N","O","P","Q","R","S","T","U","V","W","X","Y","Z">>
LowerCase == <<"a","b","c","d","e","f","g","h","i","j","k","l","m",
               "n","o","p","q","r","s","t","u","v","w","x","y","z">>

ToLower(c) ==
    IF \E i \in 1..26 : UpperCase[i] = c
    THEN LowerCase[CHOOSE i \in 1..26 : UpperCase[i] = c]
    ELSE c

\* /pat/i.test(msg): pat occurs in msg, ignoring case
RegexTestI(pat, msg) ==
    \E i \in 1..(Len(msg) - Len(pat) + 1) :
        \A j \in 1..Len(pat) : ToLower(msg[i + j - 1]) = ToLower(pat[j])

PatSerialization == <<"s","e","r","i","a","l","i","z","a","t","i","o","n">>
PatDeadlock == <<"d","e","a","d","l","o","c","k">>
PatCouldNot == <<"c","o","u","l","d"," ","n","o","t"," ","s","e","r","i","a","l",
                 "i","z","e"," ","a","c","c","e","s","s">>

MsgDbError == <<"D","B"," ","e","r","r","o","r">>
MsgDeadlock == <<"D","e","a","d","l","o","c","k"," ","f","o","u","n","d">>
MsgSerialization == <<"S","E","R","I","A","L","I","Z","A","T","I","O","N">>
MsgEmpty == << >>
MsgUnique == <<"U","n","i","q","u","e"," ","c","o","n","s","t","r","a","i","n","t">>
MsgObjectObject == <<"[","o","b","j","e","c","t"," ","O","b","j","e","c","t","]">>
MsgNull == <<"n","u","l","l">>
MsgUndefined == <<"u","n","d","e","f","i","n","e","d">>
\* the messages of the caller's errors in the repository's tests
MsgDomainError == <<"d","o","m","a","i","n"," ","e","r","r","o","r">>
MsgCustomError == <<"C","u","s","t","o","m"," ","E","r","r","o","r">>
MsgMappedError == <<"m","a","p","p","e","d"," ","e","r","r","o","r">>

(***************************************************************************)
(* Values thrown by the database client.  jstype is the result of typeof  *)
(* ("object", "string", ...) with null kept apart; name, code and message *)
(* are the fields the code reads: an absent code is "undefined", an absent *)
(* message is the empty string (the code reads it as message ?? "").       *)
(* isError is the result of `instanceof Error`.  For a thrown string the   *)
(* message field holds the text of the string.                             *)
(***************************************************************************)
RawValue(jstype, isError, name, code, message) ==
    [tag |-> "Raw", jstype |-> jstype, isError |-> isError, name |-> name,
     code |-> code, message |-> message]

\* an instance of Error, as the database client throws them
RawError(name, code, message) == RawValue("object", TRUE, name, code, message)

\* an object literal that is no instance of Error
PlainObject(name, code, message) == RawValue("object", FALSE, name, code, message)

\* null, thrown or rejected with
NullValue == RawValue("null", FALSE, "undefined", "undefined", MsgEmpty)

KnownP2034 == RawError("PrismaClientKnownRequestError", "P2034", MsgDbError)
KnownP2002 == RawError("PrismaClientKnownRequestError", "P2002", MsgDbError)
UnknownDeadlock == RawError("PrismaClientUnknownRequestError", "undefined", MsgDeadlock)
ValidationErr == RawError("PrismaClientValidationError", "undefined", MsgDbError)
PlainSerialization == RawError("Error", "undefined", MsgSerialization)
\* { code: 'P2002', message: 'Unique constraint' }
PlainP2002 == PlainObject("undefined", "P2002", MsgUnique)
\* { name: 'PrismaClientKnownRequestError', code: 'P2034', message: 'DB error' }
DuckP2034 == PlainObject("PrismaClientKnownRequestError", "P2034", MsgDbError)

\* the failures the database client raises in this model
RawCauses == {KnownP2034, KnownP2002, UnknownDeadlock, ValidationErr, PlainSerialization}

\* the failures a database operation run through exec raises in this model
ExecCauses == {KnownP2034, KnownP2002, PlainSerialization}

\* caller-defined failures of the unit of work
DomainErrors == {[tag |-> "Domain", id |-> "MyError"]}

\* the value a successful unit of work returns
UowValue == [tag |-> "Value", id |-> "result"]

(***************************************************************************)
(* prisma-client.ts: PrismaError                                          *)
(***************************************************************************)
\* cause instanceof Error: the wrappers and the caller's errors are Error classes
IsErrorInstance(v) ==
    IF v.tag = "Raw" THEN v.isError
    ELSE v.tag \in {"PrismaError", "DomainError", "Domain", "Mapped"}

\* String(v) of a value that is no instance of Error
StringOf(v) ==
    IF v.tag # "Raw" THEN MsgObjectObject
    ELSE IF v.jstype = "null" THEN MsgNull
    ELSE IF v.jstype = "undefined" THEN MsgUndefined
    ELSE IF v.jstype = "string" THEN v.message
    ELSE MsgObjectObject

\* the message property of a value, read as message ?? "": the caller's errors
\* are Error instances built with a message; DomainError and a Cause have none
MessageOf(v) ==
    IF v.tag \in {"Raw", "PrismaError"} THEN v.message
    ELSE IF v.tag = "Domain" THEN MsgDomainError
    ELSE IF v.tag = "Mapped"
         THEN (IF v.by = "errCallback" THEN MsgCustomError ELSE MsgMappedError)
    ELSE MsgEmpty

\* a wrapper that does not carry the value it was built from
PrismaErrorStaleCause(cause) ==
    [tag |-> "PrismaError",
     cause |-> RawValue("object", TRUE, "PrismaClientKnownRequestError", "P2034",
                        MessageOf(cause)),
     message |-> IF IsErrorInstance(cause) THEN MessageOf(cause) ELSE StringOf(cause)]

\* super(cause instanceof Error ? cause.message : String(cause)); this.cause = cause
PrismaError(cause) ==
    [tag |-> "PrismaError", cause |-> cause,
     message |-> IF IsErrorInstance(cause) THEN MessageOf(cause) ELSE StringOf(cause)]

toPrismaError(cause) == PrismaError(cause)

\* errCallback / mapError are caller functions: free constructors
ErrCallbackOf(cause) == [tag |-> "Mapped", by |-> "errCallback", of |-> cause]
MapErrorOf(err) == [tag |-> "Mapped", by |-> "mapError", of |-> err]

(***************************************************************************)
(* prisma-tx.ts: error predicates                                         *)
(***************************************************************************)
\* typeof e === 'object' && e !== null: every wrapper, cause and caller's error
\* is an object
IsObject(e) == IF e.tag = "Raw" THEN e.jstype = "object" ELSE TRUE

\* the name property: PrismaError sets it, Data.TaggedError gives the tag, the
\* caller's errors inherit "Error" from Error.prototype, a Cause has none
NameOf(e) ==
    IF e.tag = "Raw" THEN e.name
    ELSE IF e.tag \in {"PrismaError", "DomainError"} THEN e.tag
    ELSE IF e.tag \in {"Domain", "Mapped"} THEN "Error"
    ELSE "undefined"

\* the code property: only values of the database client carry one
CodeOf(e) == IF e.tag = "Raw" THEN e.code ELSE "undefined"

isPrismaRequestError(e) ==
    IF ~IsObject(e) THEN FALSE
    ELSE NameOf(e) = "PrismaClientKnownRequestError"
         \/ NameOf(e) = "PrismaClientUnknownRequestError"

\* the predicate without its second regular expression
isRetryablePrismaErrorOneRegex(e) ==
    IF ~IsObject(e) THEN FALSE
    ELSE LET message == MessageOf(e)
         IN  CodeOf(e) = "P2034"
             \/ RegexTestI(PatSerialization, message)
             \/ RegexTestI(PatDeadlock, message)

isRetryablePrismaError(e) ==
    IF ~IsObject(e) THEN FALSE
    ELSE LET message == MessageOf(e)
         IN  CodeOf(e) = "P2034"
             \/ RegexTestI(PatSerialization, message)
             \/ RegexTestI(PatDeadlock, message)
             \/ RegexTestI(PatCouldNot, message)

isPrismaValidationError(e) ==
    IF ~IsObject(e) THEN FALSE
    ELSE NameOf(e) = "PrismaClientValidationError"

(***************************************************************************)
(* Exits and causes of the Effect runtime.                                 *)
(***************************************************************************)
ExitSuccess(v) == [tag |-> "Success", value |-> v]
CauseFail(e) == [tag |-> "Fail", error |-> e]
CauseDie(d) == [tag |-> "Die", defect |-> d]
CauseInterrupt == [tag |-> "Interrupt"]
ExitFailCause(c) == [tag |-> "Failure", cause |-> c]
ExitFail(e) == ExitFailCause(CauseFail(e))
ExitDie(d) == ExitFailCause(CauseDie(d))
ExitInterrupt == ExitFailCause(CauseInterrupt)
NoExit == [tag |-> "None"]

\* Cause.sequential, Cause.parallel
CauseSequential(left, right) == [tag |-> "Sequential", left |-> left, right |-> right]
CauseParallel(left, right) == [tag |-> "Parallel", left |-> left, right |-> right]

\* Cause.failures: the typed failures of a cause, left to right
RECURSIVE CauseFailures(_)
CauseFailures(c) ==
    IF c.tag = "Fail" THEN <<c.error>>
    ELSE IF c.tag \in {"Sequential", "Parallel"}
         THEN CauseFailures(c.left) \o CauseFailures(c.right)
    ELSE << >>

\* Cause.failureOrCause: the first typed failure of the cause when it has one,
\* the cause itself otherwise
FailureOrCause(c) ==
    IF CauseFailures(c) # << >>
    THEN [tag |-> "Left", left |-> Head(CauseFailures(c))]
    ELSE [tag |-> "Right", right |-> c]

IsTypedFailure(exit) ==
    exit.tag = "Failure" /\ FailureOrCause(exit.cause).tag = "Left"

\* the typed failure of an exit that has one
FailureOf(exit) == FailureOrCause(exit.cause).left

\* the DomainError wrapper of prisma-tx.ts
DomainError(e) == [tag |-> "DomainError", error |-> e]
\* a Cause object thrown as is
ThrownCause(c) == [tag |-> "Cause", cause |-> c]

(***************************************************************************)
(* prisma-client.ts: the catch of exec / createExec                       *)
(***************************************************************************)
\* the catch that wraps every cause, whatever errCallback is
ExecCatchAlwaysWraps(cause, hasErrCallback) == toPrismaError(cause)

ExecCatch(cause, hasErrCallback) ==
    IF hasErrCallback THEN ErrCallbackOf(cause) ELSE toPrismaError(cause)

(***************************************************************************)
(* prisma-tx.ts: the callback handed to $transaction turns the exit of    *)
(* the unit of work into a resolved value or a thrown value.               *)
(***************************************************************************)
\* a callback that throws for typed failures only
ExitMatchThrowsTypedOnly(exit) ==
    IF exit.tag = "Success"
    THEN [tag |-> "Resolve", value |-> exit.value]
    ELSE IF FailureOrCause(exit.cause).tag = "Left"
         THEN [tag |-> "Throw", thrown |-> DomainError(FailureOrCause(exit.cause).left)]
         ELSE [tag |-> "Resolve", value |-> [tag |-> "Value", id |-> "undefined"]]

ExitMatch(exit) ==
    IF exit.tag = "Success"
    THEN [tag |-> "Resolve", value |-> exit.value]
    ELSE IF FailureOrCause(exit.cause).tag = "Left"
         THEN [tag |-> "Throw", thrown |-> DomainError(FailureOrCause(exit.cause).left)]
         ELSE [tag |-> "Throw", thrown |-> ThrownCause(FailureOrCause(exit.cause).right)]

(***************************************************************************)
(* The $transaction primitive of the database client: a callback that     *)
(* throws makes the promise reject with the thrown value (after rollback); *)
(* a callback that resolves makes it resolve with the value when the      *)
(* commit succeeds and reject with the client's error when it fails.      *)
(***************************************************************************)
CommitOk == [tag |-> "CommitOk"]
CommitFailed(raw) == [tag |-> "CommitFailed", err |-> raw]
CommitOutcomes ==
    {CommitOk} \cup {CommitFailed(r) : r \in {KnownP2034, KnownP2002, PlainSerialization}}

TransactionSettle(cbOutcome, commit) ==
    IF cbOutcome.tag = "Throw"
    THEN [tag |-> "Rejected", err |-> cbOutcome.thrown]
    ELSE IF commit.tag = "CommitOk"
         THEN [tag |-> "Resolved", value |-> cbOutcome.value]
         ELSE [tag |-> "Rejected", err |-> commit.err]

(***************************************************************************)
(* prisma-tx.ts: the catch block of runTransaction                        *)
(***************************************************************************)
\* the catch block without its DomainError branch
CatchClassifyNoDomain(err) ==
    IF isPrismaRequestError(err) \/ isPrismaValidationError(err)
    THEN ExitFail(PrismaError(err))
    ELSE IF err.tag = "Cause" THEN ExitFailCause(err.cause)
    ELSE ExitDie(err)

\* the catch block taking request errors only for raw client errors
CatchClassifyRequestOnly(err) ==
    IF err.tag = "DomainError" THEN ExitFail(err.error)
    ELSE IF isPrismaRequestError(err) THEN ExitFail(PrismaError(err))
    ELSE IF err.tag = "Cause" THEN ExitFailCause(err.cause)
    ELSE ExitDie(err)

\* a catch block whose last branch wraps the value as the second one does
CatchClassifyWrapsOthers(err) ==
    IF err.tag = "DomainError" THEN ExitFail(err.error)
    ELSE IF err.tag = "Cause" THEN ExitFailCause(err.cause)
    ELSE ExitFail(PrismaError(err))

\* the catch block without its Cause.isCause branch
CatchClassifyNoCause(err) ==
    IF err.tag = "DomainError" THEN ExitFail(err.error)
    ELSE IF isPrismaRequestError(err) \/ isPrismaValidationError(err)
         THEN ExitFail(PrismaError(err))
    ELSE ExitDie(err)

CatchClassify(err) ==
    IF err.tag = "DomainError" THEN ExitFail(err.error)
    ELSE IF isPrismaRequestError(err) \/ isPrismaValidationError(err)
         THEN ExitFail(PrismaError(err))
    ELSE IF err.tag = "Cause" THEN ExitFailCause(err.cause)
    ELSE ExitDie(err)

\* the effect handed to resume
ResumeOf(settled) ==
    IF settled.tag = "Resolved" THEN ExitSuccess(settled.value)
    ELSE CatchClassify(settled.err)

(***************************************************************************)
(* prisma-tx.ts: the `while` predicate of Effect.retry                    *)
(***************************************************************************)
RetryWhileAnyPrismaError(err) == err.tag = "PrismaError"

\* a loop that retries nothing
RetryWhileNever(err) == FALSE

RetryWhile(err) ==
    /\ err.tag = "PrismaError"
    /\ isPrismaRequestError(err.cause)
    /\ isRetryablePrismaError(err.cause)

(***************************************************************************)
(* prisma-tx.ts: result delivery (Effect.catchIf with options.mapError)   *)
(***************************************************************************)
CatchIfMapErrorNever(exit, options) == exit

\* the predicate of Effect.catchIf: err instanceof PrismaError && mapError !== undefined
CatchIfApplies(exit, options) ==
    IsTypedFailure(exit) /\ FailureOf(exit).tag = "PrismaError" /\ options.mapError

\* the arguments options.mapError is invoked with when the retry loop has ended
\* with `exit`
MapErrorArgsOf(exit, options) ==
    IF CatchIfApplies(exit, options) THEN <<FailureOf(exit)>> ELSE << >>

\* a handler placed inside the loop: it sees the failure of every attempt
RetriedMapErrorArgsMapped(exit, options) == MapErrorArgsOf(exit, options)

\* Effect.retry comes before Effect.catchIf in the pipe: the failure of an attempt
\* the loop retries does not reach the handler
RetriedMapErrorArgs(exit, options) == << >>

CatchIfMapError(exit, options) ==
    IF CatchIfApplies(exit, options)
    THEN ExitFail(MapErrorOf(FailureOf(exit)))
    ELSE exit

(***************************************************************************)
(* Clients, fibers, contexts.                                              *)
(***************************************************************************)
BaseClient == [kind |-> "base", task |-> 0, n |-> 0]
\* the client $transaction hands to its callback on task t's n-th call
TxClient(t, n) == [kind |-> "tx", task |-> t, n |-> n]

\* every task is a root fiber; Effect.runPromiseExit starts one more per attempt
OuterFiber(t) == <<t, "outer">>
InnerFiber(t) == <<t, "inner">>
\* a fiber the unit of work starts with Effect.forkDaemon
DaemonFiber(t) == <<t, "daemon">>
Fibers ==
    {OuterFiber(t) : t \in Tasks} \cup {InnerFiber(t) : t \in Tasks}
        \cup {DaemonFiber(t) : t \in Tasks}

EmptyContext == [TxMarker |-> FALSE]
\* Effect.provideService(TxMarker, true)
ProvideTxMarker(ctx) == [ctx EXCEPT !.TxMarker = TRUE]

\* TransactionOptions: mapError present or not, retryPolicy present or not,
\* isolationLevel, timeout and maxWait undefined or supplied with a value
NoPolicy == [defined |-> FALSE, recurs |-> 0]
CustomPolicy(n) == [defined |-> TRUE, recurs |-> n]
UndefinedString == [defined |-> FALSE, value |-> ""]
UndefinedNumber == [defined |-> FALSE, value |-> 0]
Supplied(v) == [defined |-> TRUE, value |-> v]
WithoutTxOptions(mapError, retryPolicy) ==
    [mapError |-> mapError, retryPolicy |-> retryPolicy,
     isolationLevel |-> UndefinedString, timeout |-> UndefinedNumber,
     maxWait |-> UndefinedNumber]
OptionValues ==
    {WithoutTxOptions(m, r) :
        m \in BOOLEAN, r \in {NoPolicy, CustomPolicy(MaxCustomRecurs)}}
\* options of nested calls: their retryPolicy is built and never used
NestedOptionValues == {WithoutTxOptions(m, NoPolicy) : m \in BOOLEAN}
NoOptions == WithoutTxOptions(FALSE, NoPolicy)

(***************************************************************************)
(* prisma-tx.ts: the options object handed to $transaction, built key by  *)
(* key from the options that are not undefined.                            *)
(***************************************************************************)
TxOptionKeys == {"isolationLevel", "timeout", "maxWait"}

\* every key forwarded, an undefined option with its placeholder
TxOptionsOfDefaulted(opts) == [k \in TxOptionKeys |-> opts[k].value]

TxOptionsOf(opts) ==
    [k \in {key \in TxOptionKeys : opts[key].defined} |-> opts[k].value]

\* options with every combination of isolationLevel, timeout (0 included) and
\* maxWait supplied or not
TxOptionValues ==
    {[mapError |-> m, retryPolicy |-> r, isolationLevel |-> i, timeout |-> to,
      maxWait |-> mw] :
        m \in BOOLEAN,
        r \in {NoPolicy, CustomPolicy(MaxCustomRecurs)},
        i \in {UndefinedString, Supplied("Serializable")},
        to \in {UndefinedNumber, Supplied(0), Supplied(TimeoutValue)},
        mw \in {UndefinedNumber, Supplied(MaxWaitValue)}}

\* $transaction has not been called
NotCalled == [tag |-> "NotCalled"]

\* the catch block takes `err` for a raw error of the database client
IsRawClientError(err) == isPrismaRequestError(err) \/ isPrismaValidationError(err)

\* Partial<TransactionConfig>: each field supplied or not
ConfigUpdates ==
    {[hasRetries |-> r[1], retries |-> r[2], hasBaseDelay |-> d[1], baseDelay |-> d[2]] :
        r \in {<<FALSE, 0>>} \cup {<<TRUE, n>> : n \in {0, MaxRetries}},
        d \in {<<FALSE, 0>>, <<TRUE, DefaultBaseDelay>>, <<TRUE, 2 * DefaultBaseDelay>>}}

defaultConfig == [retries |-> DefaultRetries, baseDelay |-> DefaultBaseDelay]

VARIABLES
    globalConfig,      \* prisma-tx.ts: let globalConfig
    pc,                \* task -> position of its fiber
    options,           \* task -> options of its withTransaction call
    retry,             \* task -> the schedule built when withTransaction started
    recurrences,       \* task -> retries the schedule has granted so far
    delay,             \* task -> the sleep before the attempt about to start; 0 when none
    txCalls,           \* task -> invocations of client.$transaction
    uowRuns,           \* task -> runs of the unit of work
    uow,               \* task -> the running unit of work (inner fiber)
    callback,          \* task -> state of the $transaction call in flight
    uowExit,           \* task -> exit of the unit of work in the latest attempt
    attemptExit,       \* task -> exit of the latest runTransaction
    result,            \* task -> exit of withTransaction
    currentClientRef,  \* fiber -> value of the FiberRef currentClientRef
    context,           \* fiber -> Context (TxMarker present or not)
    execs,             \* task -> its latest exec before, inside and after the transaction
    lastSettle,        \* task -> how its latest $transaction call settled
    rawRejected,       \* task -> some $transaction call rejected with a raw client error
    txOptions,         \* task -> the options object of its latest $transaction call
    execCall,          \* exec under test: how it was called and what the operation does
    execPc,            \* exec under test: "call", "ran", "done" ("off": none)
    execOn,            \* exec under test: the client the operation was run against
    errCallbackArgs,   \* exec under test: the arguments errCallback was invoked with
    execOut,           \* exec under test: exit of the effect exec returned
    scopePc,           \* scope -> "off", "acquire", "body", "releasing", "closed"
    handshake,         \* scope -> "none", "pending", "ok", "failed": the $connect call
    interruptPending,  \* scope -> interrupted while acquire was running
    releaseInterrupted, \* scope -> interrupted while the release was running
    bodyRan,           \* scope -> the program body was started
    connectCalls,      \* scope -> calls of client.$connect
    disconnectCalls,   \* scope -> calls of client.$disconnect
    disconnected,      \* scope -> "none", "resolved", "failed": the $disconnect call
    primaryExit,       \* scope -> exit of the program before the scope closed
    scopeExit,         \* scope -> exit of the scoped program
    scopeLog,          \* scope -> debug messages logged
    kindInput,         \* the value handed to parsePrismaErrorKind
    kindResult,        \* what parsePrismaErrorKind returned
    configLog,         \* the arguments of the configureTransactions calls, in order
    configRead,        \* what the latest getTransactionConfig() returned
    clientScopes,      \* withClient under test: the scopes open on the fiber, outermost first
    scopedExec,        \* withClient under test: the latest exec and the scopes it ran in
    lastScopeExit,     \* withClient under test: how the latest scope was left
    retryableInput,    \* the value handed to isRetryablePrismaError
    retryableResult,   \* what isRetryablePrismaError returned
    daemon,            \* task -> "none", "running", "done": a fiber the unit of work detached
    mapErrorArgs,      \* task -> the errors options.mapError was invoked with, in order
    slept              \* task -> the latest sleep of the loop, where sleeps are recorded

\* state of withTransaction and of the tasks that call it
txVars == <<globalConfig, pc, options, retry, recurrences, delay,
            txCalls, uowRuns, uow, callback, uowExit, attemptExit, result,
            currentClientRef, context, execs, lastSettle, rawRejected, txOptions>>

\* state of a single exec call
execVars == <<execCall, execPc, execOn, errCallbackArgs, execOut>>

\* state of the components checked apart from withTransaction
\* state of the PrismaLiveScoped scopes
scopeVars == <<scopePc, handshake, interruptPending, releaseInterrupted, bodyRan,
               connectCalls,
               disconnectCalls, disconnected, primaryExit, scopeExit, scopeLog>>

\* state of a single parsePrismaErrorKind call
kindVars == <<kindInput, kindResult>>

\* record of the calls of configureTransactions and getTransactionConfig
configVars == <<configLog, configRead>>

\* state of the nested withClient scopes of one fiber
withClientVars == <<clientScopes, scopedExec, lastScopeExit>>

\* state of a single isRetryablePrismaError call
retryableVars == <<retryableInput, retryableResult>>

otherVars == <<withClientVars, retryableVars, daemon, slept>>

componentVars == <<execVars, scopeVars, kindVars, configVars, otherVars, mapErrorArgs>>

vars == <<txVars, componentVars>>

(***************************************************************************)
(* prisma-tx.ts: configureTransactions                                    *)
(***************************************************************************)
\* a merge that resets the fields the update does not supply
MergeConfigOverwrite(config, update) ==
    [retries |-> IF update.hasRetries THEN update.retries ELSE defaultConfig.retries,
     baseDelay |-> IF update.hasBaseDelay THEN update.baseDelay
                   ELSE defaultConfig.baseDelay]

\* { ...globalConfig, ...config }
MergeConfig(config, update) ==
    [retries |-> IF update.hasRetries THEN update.retries ELSE config.retries,
     baseDelay |-> IF update.hasBaseDelay THEN update.baseDelay ELSE config.baseDelay]

(***************************************************************************)
(* prisma-tx.ts: the retry schedule, built once per withTransaction       *)
(***************************************************************************)
\* options.retryPolicy ?? exponential(baseDelay) |> jittered |> compose(recurs(retries))
RetryPolicyOf(opts, config) ==
    IF opts.retryPolicy.defined
    THEN [kind |-> "custom", recurs |-> opts.retryPolicy.recurs, baseDelay |-> 0]
    ELSE [kind |-> "default", recurs |-> config.retries, baseDelay |-> config.baseDelay]

\* Schedule.recurs(n) after k recurrences: one more is granted while k < n
RecursContinuesOneMore(n, k) == k <= n

RecursContinues(n, k) == k < n

\* the limit and the base delay a retry loop in progress works with
ScheduleOfLive(policy) ==
    IF policy.kind = "default"
    THEN [policy EXCEPT !.recurs = globalConfig.retries,
                        !.baseDelay = globalConfig.baseDelay]
    ELSE policy

ScheduleOf(policy) == policy

RECURSIVE Power(_, _)
Power(b, k) == IF k = 0 THEN 1 ELSE b * Power(b, k - 1)

\* a fixed spacing: the same delay before every recurrence
ExponentialDelayFixed(base, k) == base

\* Schedule.exponential(base): delay before recurrence k + 1
ExponentialDelay(base, k) == base * Power(ExponentialFactor, k)

\* Schedule.jittered scales the delay d by a random factor of at least 80% and
\* below 120%.  Sleeps are counted in whole milliseconds, the fraction dropped:
\* the least one, and the first whole number no jittered delay reaches
JitteredLeast(d) == (d * JitterMin) \div 100
JitteredLimit(d) == (d * JitterMax + 99) \div 100

\* every sleep Schedule.jittered can make of the delay d
JitteredDelays(d) ==
    IF d = 0 THEN {0} ELSE JitteredLeast(d)..(JitteredLimit(d) - 1)

(***************************************************************************)
(* prisma-client.ts: PrismaServiceLive                                    *)
(***************************************************************************)
\* exec ignoring the FiberRef, as createExec(client) does
ExecTargetBase(refs, fiber) == BaseClient

\* exec: FiberRef.get(currentClientRef) of the calling fiber
ExecTarget(refs, fiber) == refs[fiber]

\* a process-wide variable instead of a fiber-local one
LocallyShared(refs, fiber, c) == [f \in DOMAIN refs |-> c]

\* withClient: Effect.locally(eff, currentClientRef, c) on entry ...
Locally(refs, fiber, c) == [refs EXCEPT ![fiber] = c]

\* an exit that leaves the override in place
LocallyExitKeeps(refs, fiber, previous) == refs

\* ... and on exit, the previous value is restored
LocallyExit(refs, fiber, previous) == [refs EXCEPT ![fiber] = previous]

(***************************************************************************)
(* prisma-tx.ts: nesting check                                            *)
(***************************************************************************)
alreadyInTransactionNever(ctx) == FALSE

alreadyInTransaction(ctx) == ctx.TxMarker

(***************************************************************************)
(* State after construction: the config holds its defaults, PrismaService *)
(* was built over the base client, no task has started.                    *)
(***************************************************************************)
NoClient == [kind |-> "none", task |-> 0, n |-> 0]
NoExec ==
    [target |-> NoClient, call |-> 0, peerInTx |-> FALSE, cancelled |-> FALSE,
     marker |-> FALSE, settled |-> FALSE]
NoExecs == [pre |-> NoExec, in |-> NoExec, post |-> NoExec, daemon |-> NoExec]
\* the promise of $transaction has not rejected
NoRejection == [tag |-> "None"]
NotSettled == [call |-> 0, outcome |-> "none", err |-> NoRejection, cancelled |-> FALSE]
\* pending: the unit of work waits for the promise of a database operation;
\* scopes: the FiberRef values its open withClient scopes restore on exit
NoUow == [running |-> FALSE, ops |-> 0, frames |-> << >>, pending |-> FALSE,
          scopes |-> << >>]
\* a unit of work that has just started
FreshUow == [running |-> TRUE, ops |-> 0, frames |-> << >>, pending |-> FALSE,
             scopes |-> << >>]
\* $transaction has been called and has not invoked its callback yet
Called == [tag |-> "Called"]
Idle == [tag |-> "Idle"]

InitWith(active) ==
    /\ globalConfig = defaultConfig
    /\ pc = [t \in Tasks |-> IF t \in active THEN "pre" ELSE "off"]
    /\ options = [t \in Tasks |-> NoOptions]
    /\ retry = [t \in Tasks |-> RetryPolicyOf(NoOptions, defaultConfig)]
    /\ recurrences = [t \in Tasks |-> 0]
    /\ delay = [t \in Tasks |-> 0]
    /\ txCalls = [t \in Tasks |-> 0]
    /\ uowRuns = [t \in Tasks |-> 0]
    /\ uow = [t \in Tasks |-> NoUow]
    /\ callback = [t \in Tasks |-> Idle]
    /\ uowExit = [t \in Tasks |-> NoExit]
    /\ attemptExit = [t \in Tasks |-> NoExit]
    /\ result = [t \in Tasks |-> NoExit]
    /\ currentClientRef = [f \in Fibers |-> BaseClient]
    /\ context = [f \in Fibers |-> EmptyContext]
    /\ execs = [t \in Tasks |-> NoExecs]
    /\ lastSettle = [t \in Tasks |-> NotSettled]
    /\ rawRejected = [t \in Tasks |-> FALSE]
    /\ txOptions = [t \in Tasks |-> NotCalled]

\* no exec call is under test
NoExecCall == [tag |-> "None"]
ExecOff ==
    /\ execCall = NoExecCall
    /\ execPc = "off"
    /\ execOn = NoClient
    /\ errCallbackArgs = << >>
    /\ execOut = NoExit

\* no scope has been opened
ScopeOff ==
    /\ scopePc = [s \in Scopes |-> "off"]
    /\ handshake = [s \in Scopes |-> "none"]
    /\ interruptPending = [s \in Scopes |-> FALSE]
    /\ releaseInterrupted = [s \in Scopes |-> FALSE]
    /\ bodyRan = [s \in Scopes |-> FALSE]
    /\ connectCalls = [s \in Scopes |-> 0]
    /\ disconnectCalls = [s \in Scopes |-> 0]
    /\ disconnected = [s \in Scopes |-> "none"]
    /\ primaryExit = [s \in Scopes |-> NoExit]
    /\ scopeExit = [s \in Scopes |-> NoExit]
    /\ scopeLog = [s \in Scopes |-> << >>]

\* parsePrismaErrorKind is not under test
NoKindInput == [tag |-> "None"]
NoKind == "none"
KindOff == kindInput = NoKindInput /\ kindResult = NoKind

\* no call of configureTransactions or getTransactionConfig is on record
NoConfigRead == [tag |-> "None"]
ConfigOff == configLog = << >> /\ configRead = NoConfigRead

\* no withClient scope is under test
NoScopedExec == [tag |-> "None"]
NoScopeExit == [how |-> "none", client |-> NoClient]
WithClientOff ==
    clientScopes = << >> /\ scopedExec = NoScopedExec /\ lastScopeExit = NoScopeExit

\* isRetryablePrismaError is not under test
NoRetryableInput == [tag |-> "None"]
NoRetryableResult == [tag |-> "None"]
RetryableOff ==
    retryableInput = NoRetryableInput /\ retryableResult = NoRetryableResult

\* no unit of work has detached a fiber
DaemonOff == daemon = [t \in Tasks |-> "none"]

\* no sleep is on record
SleptOff == slept = [t \in Tasks |-> 0]

OthersOff ==
    /\ WithClientOff /\ RetryableOff /\ DaemonOff /\ SleptOff
    /\ mapErrorArgs = [t \in Tasks |-> << >>]

ComponentsOff == ExecOff /\ ScopeOff /\ KindOff /\ ConfigOff /\ OthersOff

Init == InitWith({1}) /\ ComponentsOff

\* the $transaction call that supplied client c is no longer in flight
TransactionSettled(c) ==
    /\ c.kind = "tx"
    /\ ~(callback[c.task] # Idle /\ txCalls[c.task] = c.n)

\* exec runs f against the client the FiberRef of the calling fiber holds
LogExecWith(refs, t, phase, fiber) ==
    [execs EXCEPT ![t][phase] =
        [target |-> ExecTarget(refs, fiber),
         call |-> txCalls[t],
         peerInTx |-> \E u \in Tasks \ {t} : uow[u].running,
         cancelled |-> pc[t] = "interrupted",
         marker |-> context[fiber].TxMarker,
         settled |-> TransactionSettled(ExecTarget(refs, fiber))]]

LogExec(t, phase, fiber) == LogExecWith(currentClientRef, t, phase, fiber)

(***************************************************************************)
(* configureTransactions(update)                                          *)
(***************************************************************************)
Configure(update) ==
    /\ globalConfig' = MergeConfig(globalConfig, update)
    /\ UNCHANGED <<pc, options, retry, recurrences, delay, txCalls, uowRuns, uow,
                   callback, uowExit, attemptExit, result, currentClientRef,
                   context, execs, lastSettle>>
    /\ UNCHANGED <<rawRejected, txOptions>>
    /\ UNCHANGED componentVars

(***************************************************************************)
(* PrismaService.exec issued by the task itself, before and after its     *)
(* withTransaction call.                                                   *)
(***************************************************************************)
ExecOuter(t) ==
    /\ pc[t] \in {"pre", "post"}
    /\ execs' = LogExec(t, pc[t], OuterFiber(t))
    /\ pc' = [pc EXCEPT ![t] = IF pc[t] = "pre" THEN "begin" ELSE "end"]
    /\ UNCHANGED <<globalConfig, options, retry, recurrences, delay,
                   txCalls, uowRuns, uow, callback, uowExit, attemptExit, result,
                   currentClientRef, context, lastSettle>>
    /\ UNCHANGED <<rawRejected, txOptions>>
    /\ UNCHANGED componentVars

(***************************************************************************)
(* withTransaction(effect, opts), up to the nesting check: the schedule   *)
(* is built from globalConfig as it is now.                                *)
(***************************************************************************)
Begin(t, opts) ==
    /\ pc[t] = "begin"
    /\ ~alreadyInTransaction(context[OuterFiber(t)])
    /\ options' = [options EXCEPT ![t] = opts]
    /\ retry' = [retry EXCEPT ![t] = RetryPolicyOf(opts, globalConfig)]
    /\ pc' = [pc EXCEPT ![t] = "attempt"]
    /\ UNCHANGED <<globalConfig, recurrences, delay, txCalls, uowRuns,
                   uow, callback, uowExit, attemptExit, result, currentClientRef,
                   context, execs, lastSettle>>
    /\ UNCHANGED <<rawRejected, txOptions>>
    /\ UNCHANGED componentVars

(***************************************************************************)
(* runTransaction: the Effect.async body calls                            *)
(* client.$transaction(callback, txOptions) and the fiber waits for       *)
(* resume.  The client answers in a later task of the event loop.          *)
(***************************************************************************)
TxCall(t) ==
    /\ pc[t] = "attempt"
    /\ ~uow[t].running /\ callback[t] = Idle
    /\ txCalls' = [txCalls EXCEPT ![t] = @ + 1]
    /\ txOptions' = [txOptions EXCEPT ![t] = TxOptionsOf(options[t])]
    /\ callback' = [callback EXCEPT ![t] = Called]
    /\ execs' = [execs EXCEPT ![t]["in"] = NoExec]
    /\ lastSettle' = [lastSettle EXCEPT ![t] = NotSettled]
    /\ attemptExit' = [attemptExit EXCEPT ![t] = NoExit]
    /\ uowExit' = [uowExit EXCEPT ![t] = NoExit]
    /\ pc' = [pc EXCEPT ![t] = "waiting"]
    /\ delay' = [delay EXCEPT ![t] = 0]
    /\ UNCHANGED <<globalConfig, options, retry, recurrences, result,
                   uowRuns, uow, currentClientRef, context>>
    /\ UNCHANGED <<rawRejected>>
    /\ UNCHANGED componentVars

\* the client invokes the callback with a transaction client; the callback
\* starts the unit of work on a new root fiber, inside withClient(tx, ...) and
\* with TxMarker provided
TxOpen(t) ==
    /\ callback[t] = Called
    /\ uowRuns' = [uowRuns EXCEPT ![t] = @ + 1]
    /\ currentClientRef' = Locally(currentClientRef, InnerFiber(t), TxClient(t, txCalls[t]))
    /\ context' = [context EXCEPT ![InnerFiber(t)] = ProvideTxMarker(context[OuterFiber(t)])]
    /\ uow' = [uow EXCEPT ![t] = FreshUow]
    /\ callback' = [callback EXCEPT ![t] = [tag |-> "Body"]]
    /\ UNCHANGED <<globalConfig, pc, options, retry, recurrences, delay, result,
                   txCalls, execs, lastSettle, attemptExit, uowExit>>
    /\ UNCHANGED <<rawRejected, txOptions>>
    /\ UNCHANGED componentVars

\* the exit of an attempt reaches the waiting fiber through resume
Resumed(t, exit) ==
    /\ attemptExit' = [attemptExit EXCEPT ![t] = exit]
    /\ pc' = [pc EXCEPT ![t] = "resumed"]

\* the promise of $transaction rejects without the callback having been invoked;
\* a fiber interrupted meanwhile ignores the resume
TxOpenReject(t, raw) ==
    /\ callback[t] = Called
    /\ callback' = [callback EXCEPT ![t] = Idle]
    /\ lastSettle' = [lastSettle EXCEPT ![t] =
           [call |-> txCalls[t], outcome |-> "rejected", err |-> raw,
            cancelled |-> pc[t] = "interrupted"]]
    /\ rawRejected' = [rawRejected EXCEPT ![t] = @ \/ IsRawClientError(raw)]
    /\ IF pc[t] = "waiting"
       THEN Resumed(t, ResumeOf([tag |-> "Rejected", err |-> raw]))
       ELSE UNCHANGED <<pc, attemptExit>>
    /\ UNCHANGED <<globalConfig, options, retry, recurrences, delay, txCalls,
                   uowRuns, uow, uowExit, execs, result, currentClientRef, context>>
    /\ UNCHANGED <<txOptions>>
    /\ UNCHANGED componentVars

(***************************************************************************)
(* The unit of work, running on the inner fiber.                           *)
(***************************************************************************)
\* a nested withTransaction whose effect ended with `exit`: `return yield* effect`
NestedReturn(exit, mapError) == exit

\* an exit raised inside nested calls leaves them innermost first; frames holds,
\* for each nested call, whether it was given mapError
RECURSIVE ThroughFrames(_, _)
ThroughFrames(exit, frames) ==
    IF frames = << >> THEN exit
    ELSE ThroughFrames(NestedReturn(exit, frames[Len(frames)]),
                       SubSeq(frames, 1, Len(frames) - 1))

\* the unit of work ends with `exit`: withClient restores the FiberRef and
\* the callback resolves or throws
UowEnds(t, exit) ==
    /\ uow' = [uow EXCEPT ![t] = NoUow]
    /\ uowExit' = [uowExit EXCEPT ![t] = ThroughFrames(exit, uow[t].frames)]
    /\ callback' = [callback EXCEPT ![t] = ExitMatch(ThroughFrames(exit, uow[t].frames))]
    /\ currentClientRef' = LocallyExit(currentClientRef, InnerFiber(t), BaseClient)
    /\ context' = [context EXCEPT ![InnerFiber(t)] = EmptyContext]

\* the fiber of the unit of work is running and not waiting for a promise
UowRunning(t) == uow[t].running /\ ~uow[t].pending

\* exec(f, errCallback?): f is called with the client of the FiberRef and the
\* fiber waits for the promise f returned
UowExec(t) ==
    /\ UowRunning(t) /\ uow[t].ops < MaxOps
    /\ execs' = LogExec(t, "in", InnerFiber(t))
    /\ uow' = [uow EXCEPT ![t].pending = TRUE]
    /\ UNCHANGED <<globalConfig, pc, options, retry, recurrences, delay,
                   txCalls, uowRuns, callback, uowExit, attemptExit, result,
                   currentClientRef, context, lastSettle>>
    /\ UNCHANGED <<rawRejected, txOptions>>
    /\ UNCHANGED componentVars

\* the promise of f resolves: exec succeeds and the unit of work goes on
UowExecOk(t) ==
    /\ uow[t].running /\ uow[t].pending
    /\ uow' = [uow EXCEPT ![t].ops = @ + 1, ![t].pending = FALSE]
    /\ UNCHANGED execs
    /\ UNCHANGED <<globalConfig, pc, options, retry, recurrences, delay,
                   txCalls, uowRuns, callback, uowExit, attemptExit, result,
                   currentClientRef, context, lastSettle>>
    /\ UNCHANGED <<rawRejected, txOptions>>
    /\ UNCHANGED componentVars

\* the promise of f rejects with `cause`: exec fails and so does the unit of work
UowExecFails(t, cause, hasErrCallback) ==
    /\ uow[t].running /\ uow[t].pending
    /\ UNCHANGED execs
    /\ UowEnds(t, ExitFail(ExecCatch(cause, hasErrCallback)))
    /\ UNCHANGED <<globalConfig, pc, options, retry, recurrences, delay,
                   txCalls, uowRuns, attemptExit, result, lastSettle>>
    /\ UNCHANGED <<rawRejected, txOptions>>
    /\ UNCHANGED componentVars

\* a nested withTransaction(effect, opts) inside the unit of work
UowNestedBegin(t, opts) ==
    /\ UowRunning(t) /\ Len(uow[t].frames) < MaxDepth
    /\ uow' = [uow EXCEPT ![t].frames = Append(@, opts.mapError)]
    /\ IF alreadyInTransaction(context[InnerFiber(t)])
       THEN UNCHANGED <<txCalls, currentClientRef>>
       ELSE /\ txCalls' = [txCalls EXCEPT ![t] = @ + 1]
            /\ currentClientRef' =
                   Locally(currentClientRef, InnerFiber(t), TxClient(t, txCalls[t] + 1))
    /\ UNCHANGED <<globalConfig, pc, options, retry, recurrences, delay,
                   uowRuns, callback, uowExit, attemptExit, result, context,
                   execs, lastSettle>>
    /\ UNCHANGED <<rawRejected, txOptions>>
    /\ UNCHANGED componentVars

\* the nested call's effect succeeds and the nested call returns
UowNestedEnd(t) ==
    /\ UowRunning(t) /\ Len(uow[t].frames) > 0
    /\ uow' = [uow EXCEPT ![t].frames = SubSeq(@, 1, Len(@) - 1)]
    /\ UNCHANGED <<globalConfig, pc, options, retry, recurrences, delay,
                   txCalls, uowRuns, callback, uowExit, attemptExit, result,
                   currentClientRef, context, execs, lastSettle>>
    /\ UNCHANGED <<rawRejected, txOptions>>
    /\ UNCHANGED componentVars

\* Effect.fail(e) with a caller-defined error, at any nesting depth
UowFails(t, e) ==
    /\ UowRunning(t)
    /\ UowEnds(t, ExitFail(e))
    /\ UNCHANGED <<globalConfig, pc, options, retry, recurrences, delay,
                   txCalls, uowRuns, attemptExit, result, execs, lastSettle>>
    /\ UNCHANGED <<rawRejected, txOptions>>
    /\ UNCHANGED componentVars

\* the unit of work throws: a defect
UowDies(t, d) ==
    /\ UowRunning(t)
    /\ UowEnds(t, ExitDie(d))
    /\ UNCHANGED <<globalConfig, pc, options, retry, recurrences, delay,
                   txCalls, uowRuns, attemptExit, result, execs, lastSettle>>
    /\ UNCHANGED <<rawRejected, txOptions>>
    /\ UNCHANGED componentVars

\* the unit of work is interrupted from within (Effect.interrupt)
UowInterrupts(t) ==
    /\ UowRunning(t)
    /\ UowEnds(t, ExitInterrupt)
    /\ UNCHANGED <<globalConfig, pc, options, retry, recurrences, delay,
                   txCalls, uowRuns, attemptExit, result, execs, lastSettle>>
    /\ UNCHANGED <<rawRejected, txOptions>>
    /\ UNCHANGED componentVars

\* a failure whose finalizer dies, or a failure next to a defect of a concurrent
\* branch: the cause of the exit holds the typed failure and more
CompositeCauses ==
    {CauseSequential(CauseFail(e), CauseDie(PlainSerialization)) : e \in DomainErrors}

\* the same with concurrent branches, the defect first
ParallelCauses ==
    {CauseParallel(CauseDie(PlainSerialization), CauseFail(e)) : e \in DomainErrors}

\* the unit of work ends with a cause made of several
UowFailsWith(t, cause) ==
    /\ UowRunning(t)
    /\ UowEnds(t, ExitFailCause(cause))
    /\ UNCHANGED <<globalConfig, pc, options, retry, recurrences, delay,
                   txCalls, uowRuns, attemptExit, result, execs, lastSettle>>
    /\ UNCHANGED <<rawRejected, txOptions>>
    /\ UNCHANGED componentVars

\* the unit of work returns its value
UowSucceeds(t) ==
    /\ UowRunning(t) /\ uow[t].frames = << >> /\ uow[t].scopes = << >>
    /\ UowEnds(t, ExitSuccess(UowValue))
    /\ UNCHANGED <<globalConfig, pc, options, retry, recurrences, delay,
                   txCalls, uowRuns, attemptExit, result, execs, lastSettle>>
    /\ UNCHANGED <<rawRejected, txOptions>>
    /\ UNCHANGED componentVars

(***************************************************************************)
(* The $transaction promise settles (commit or rollback) and the catch    *)
(* block resumes the waiting fiber; a fiber interrupted meanwhile ignores *)
(* the resume.                                                             *)
(***************************************************************************)
TxSettle(t, commit) ==
    /\ callback[t].tag \in {"Resolve", "Throw"}
    /\ callback[t].tag = "Throw" => commit = CommitOk
    /\ LET settled == TransactionSettle(callback[t], commit)
       IN  /\ lastSettle' = [lastSettle EXCEPT ![t] =
                  [call |-> txCalls[t],
                   outcome |-> IF settled.tag = "Resolved" THEN "commit" ELSE "rollback",
                   err |-> IF settled.tag = "Resolved" THEN NoRejection ELSE settled.err,
                   cancelled |-> pc[t] = "interrupted"]]
           /\ rawRejected' = [rawRejected EXCEPT ![t] =
                  @ \/ (settled.tag = "Rejected" /\ IsRawClientError(settled.err))]
           /\ IF pc[t] = "waiting"
              THEN Resumed(t, ResumeOf(settled))
              ELSE UNCHANGED <<pc, attemptExit>>
    /\ callback' = [callback EXCEPT ![t] = Idle]
    /\ UNCHANGED <<globalConfig, options, retry, recurrences, delay,
                   txCalls, uowRuns, uow, uowExit, result, currentClientRef,
                   context, execs>>
    /\ UNCHANGED <<txOptions>>
    /\ UNCHANGED componentVars

(***************************************************************************)
(* Effect.retry({schedule, while}) and Effect.catchIf(mapError)           *)
(***************************************************************************)
\* the attempt failed with a typed failure the loop retries
RetryGranted(t) ==
    /\ IsTypedFailure(attemptExit[t])
    /\ RetryWhile(FailureOf(attemptExit[t]))
    /\ RecursContinues(ScheduleOf(retry[t]).recurs, recurrences[t])

\* the sleeps the schedule of task t can choose before its next recurrence
RetryDelays(t) ==
    JitteredDelays(ExponentialDelay(ScheduleOf(retry[t]).baseDelay, recurrences[t]))

\* the schedule grants one more attempt and the fiber sleeps `ms` before it
RetryLoop(t, ms) ==
    /\ pc[t] = "resumed"
    /\ RetryGranted(t)
    /\ ms \in RetryDelays(t)
    /\ recurrences' = [recurrences EXCEPT ![t] = @ + 1]
    /\ delay' = [delay EXCEPT ![t] = ms]
    /\ pc' = [pc EXCEPT ![t] = "attempt"]
    /\ mapErrorArgs' = [mapErrorArgs EXCEPT ![t] =
           @ \o RetriedMapErrorArgs(attemptExit[t], options[t])]
    /\ UNCHANGED <<globalConfig, options, retry, txCalls, uowRuns, uow,
                   callback, uowExit, attemptExit, result, currentClientRef,
                   context, execs, lastSettle>>
    /\ UNCHANGED <<rawRejected, txOptions>>
    /\ UNCHANGED <<execVars, scopeVars, kindVars, configVars>>

\* one more attempt, after the schedule's delay
Retry(t, ms) == RetryLoop(t, ms) /\ UNCHANGED otherVars

\* the same under a clock that records the sleep
RetryRecorded(t, ms) ==
    /\ RetryLoop(t, ms)
    /\ slept' = [slept EXCEPT ![t] = ms]
    /\ UNCHANGED <<withClientVars, retryableVars, daemon>>

\* the loop ends: withTransaction returns
Deliver(t) ==
    /\ pc[t] = "resumed"
    /\ ~RetryGranted(t)
    /\ result' = [result EXCEPT ![t] = CatchIfMapError(attemptExit[t], options[t])]
    /\ mapErrorArgs' = [mapErrorArgs EXCEPT ![t] =
           @ \o MapErrorArgsOf(attemptExit[t], options[t])]
    /\ pc' = [pc EXCEPT ![t] = "post"]
    /\ UNCHANGED <<globalConfig, options, retry, recurrences, delay,
                   txCalls, uowRuns, uow, callback, uowExit, attemptExit,
                   currentClientRef, context, execs, lastSettle>>
    /\ UNCHANGED <<rawRejected, txOptions>>
    /\ UNCHANGED <<execVars, scopeVars, kindVars, configVars, otherVars>>

(***************************************************************************)
(* The task is interrupted from outside while its attempt is in flight,   *)
(* after resume was called and before the fiber runs on, or while it      *)
(* sleeps before a retry; a delay of 0 suspends nothing.  Effect.async    *)
(* was given no finalizer and the unit of work runs on a root fiber of    *)
(* its own: neither the $transaction call nor the unit of work is told.   *)
(***************************************************************************)
Interrupt(t) ==
    /\ \/ pc[t] = "waiting"
       \/ pc[t] = "resumed"
       \/ pc[t] = "attempt" /\ recurrences[t] > 0 /\ delay[t] > 0
    /\ pc' = [pc EXCEPT ![t] = "interrupted"]
    /\ result' = [result EXCEPT ![t] = ExitInterrupt]
    /\ delay' = [delay EXCEPT ![t] = 0]
    /\ UNCHANGED <<globalConfig, options, retry, recurrences,
                   txCalls, uowRuns, uow, callback, uowExit, attemptExit,
                   currentClientRef, context, execs, lastSettle>>
    /\ UNCHANGED <<rawRejected, txOptions>>
    /\ UNCHANGED componentVars

TaskStep(t) ==
    \/ ExecOuter(t)
    \/ \E opts \in OptionValues : Begin(t, opts)
    \/ TxCall(t)
    \/ TxOpen(t)
    \/ \E raw \in RawCauses : TxOpenReject(t, raw)
    \/ UowExec(t)
    \/ UowExecOk(t)
    \/ \E c \in ExecCauses, cb \in BOOLEAN : UowExecFails(t, c, cb)
    \/ \E opts \in NestedOptionValues : UowNestedBegin(t, opts)
    \/ UowNestedEnd(t)
    \/ \E e \in DomainErrors : UowFails(t, e)
    \/ \E d \in {PlainSerialization} : UowDies(t, d)
    \/ \E cause \in CompositeCauses : UowFailsWith(t, cause)
    \/ UowInterrupts(t)
    \/ UowSucceeds(t)
    \/ \E commit \in CommitOutcomes : TxSettle(t, commit)
    \/ \E ms \in RetryDelays(t) : Retry(t, ms)
    \/ Deliver(t)
    \/ Interrupt(t)

Next ==
    \/ \E update \in ConfigUpdates : Configure(update)
    \/ \E t \in Tasks : TaskStep(t)

Spec == Init /\ [][Next]_vars

(***************************************************************************)
(* Unrelated tasks running concurrently: every task is active and their   *)
(* steps interleave freely.                                                *)
(***************************************************************************)
InitConc == InitWith(Tasks) /\ ComponentsOff

TaskStepConc(t) ==
    \/ ExecOuter(t)
    \/ Begin(t, NoOptions)
    \/ TxCall(t)
    \/ TxOpen(t)
    \/ UowExec(t)
    \/ UowExecOk(t)
    \/ UowFails(t, CHOOSE e \in DomainErrors : TRUE)
    \/ UowSucceeds(t)
    \/ TxSettle(t, CommitOk)
    \/ Deliver(t)

NextConc == \E t \in Tasks : TaskStepConc(t)

SpecConc == InitConc /\ [][NextConc]_vars

(***************************************************************************)
(* withTransaction called with every combination of options, the unit of  *)
(* work without database operations of its own.                            *)
(***************************************************************************)
TaskStepOptions(t) ==
    \/ ExecOuter(t)
    \/ \E opts \in TxOptionValues : Begin(t, opts)
    \/ TxCall(t)
    \/ TxOpen(t)
    \/ \E raw \in {KnownP2034, KnownP2002} : TxOpenReject(t, raw)
    \/ \E e \in DomainErrors : UowFails(t, e)
    \/ UowSucceeds(t)
    \/ TxSettle(t, CommitOk)
    \/ \E ms \in RetryDelays(t) : Retry(t, ms)
    \/ Deliver(t)

NextOptions == \E t \in Tasks : TaskStepOptions(t)

SpecOptions == Init /\ [][NextOptions]_vars

(***************************************************************************)
(* prisma-client.ts: one call of exec(f, errCallback?), through           *)
(* PrismaService.exec or through the function createExec(client) returns,  *)
(* possibly inside withClient(c, ...).  The operation f resolves, rejects  *)
(* or throws.                                                              *)
(***************************************************************************)
\* a thrown string: typeof is "string", String(cause) is the string itself
ThrownString ==
    RawValue("string", FALSE, "undefined", "undefined", <<"b", "o", "o", "m">>)

OpResolve(v) == [tag |-> "resolve", value |-> v]
OpReject(c) == [tag |-> "reject", cause |-> c]
OpThrow(c) == [tag |-> "throw", cause |-> c]

OpValues == {UowValue, [tag |-> "Value", id |-> "row"]}
OpCauses == RawCauses \cup {ThrownString, PlainP2002, DuckP2034, NullValue}
OpOutcomes ==
    {OpResolve(v) : v \in OpValues}
        \cup {OpReject(c) : c \in OpCauses} \cup {OpThrow(c) : c \in OpCauses}

\* the fiber that makes the call
ExecFiber == OuterFiber(1)

\* via: which exec; bound: the client createExec was given; within: the client of
\* an enclosing withClient, if any
ExecCalls ==
    {[via |-> v[1], bound |-> v[2], within |-> w, op |-> o, hasErrCallback |-> cb] :
        v \in {<<"service", BaseClient>>, <<"createExec", BaseClient>>,
                <<"createExec", TxClient(1, 1)>>},
        w \in {NoClient, TxClient(1, 1)},
        o \in OpOutcomes,
        cb \in BOOLEAN}

\* createExec(client): try: () => f(client)
CreateExecTarget(call, refs, fiber) == call.bound

\* the client f is called with
ExecClient(call, refs, fiber) ==
    IF call.via = "service" THEN ExecTarget(refs, fiber)
    ELSE CreateExecTarget(call, refs, fiber)

\* Effect.tryPromise({try, catch}): a rejection and a synchronous throw both go
\* through catch
TryPromise(op, hasErrCallback) ==
    IF op.tag = "resolve" THEN ExitSuccess(op.value)
    ELSE ExitFail(ExecCatch(op.cause, hasErrCallback))

\* the arguments errCallback receives
ErrCallbackArgsOf(op, hasErrCallback) ==
    IF op.tag # "resolve" /\ hasErrCallback THEN <<op.cause>> ELSE << >>

InitExec ==
    /\ InitWith({})
    /\ ScopeOff /\ KindOff /\ ConfigOff /\ OthersOff
    /\ execCall \in ExecCalls
    /\ execPc = "call"
    /\ execOn = NoClient
    /\ errCallbackArgs = << >>
    /\ execOut = NoExit

ExecUnchangedTx ==
    /\ UNCHANGED <<globalConfig, pc, options, retry, recurrences, delay, txCalls,
                   uowRuns, uow, callback, uowExit, attemptExit, result, context,
                   execs, lastSettle, rawRejected, txOptions>>
    /\ UNCHANGED <<scopeVars, kindVars, configVars, otherVars, mapErrorArgs>>

\* withClient(c, exec(...)): Effect.locally sets the FiberRef
ExecEnterWithClient ==
    /\ execPc = "call" /\ execCall.within # NoClient
    /\ currentClientRef' = Locally(currentClientRef, ExecFiber, execCall.within)
    /\ execPc' = "scoped"
    /\ ExecUnchangedTx
    /\ UNCHANGED <<execCall, execOn, errCallbackArgs, execOut>>

\* the effect runs: f is called with the client
ExecRunOperation ==
    /\ \/ execPc = "call" /\ execCall.within = NoClient
       \/ execPc = "scoped"
    /\ execOn' = ExecClient(execCall, currentClientRef, ExecFiber)
    /\ execPc' = "ran"
    /\ ExecUnchangedTx
    /\ UNCHANGED <<currentClientRef, execCall, errCallbackArgs, execOut>>

\* the promise settles (or f has thrown): the effect ends, and with it the
\* enclosing withClient
ExecSettles ==
    /\ execPc = "ran"
    /\ execOut' = TryPromise(execCall.op, execCall.hasErrCallback)
    /\ errCallbackArgs' = ErrCallbackArgsOf(execCall.op, execCall.hasErrCallback)
    /\ currentClientRef' =
           IF execCall.within # NoClient
           THEN LocallyExit(currentClientRef, ExecFiber, BaseClient)
           ELSE currentClientRef
    /\ execPc' = "done"
    /\ ExecUnchangedTx
    /\ UNCHANGED <<execCall, execOn>>

NextExec == ExecEnterWithClient \/ ExecRunOperation \/ ExecSettles

SpecExec == InitExec /\ [][NextExec]_vars

(***************************************************************************)
(* prisma-client.ts: PrismaLiveScoped.  Layer.scoped(acquireRelease(...)) *)
(* under Effect.scoped: the layer is built (createClient, $connect), the  *)
(* program body runs, the scope closes and runs the release ($disconnect). *)
(***************************************************************************)
MsgConnectionFailed ==
    <<"C","o","n","n","e","c","t","i","o","n"," ","f","a","i","l","e","d">>
ConnectionError == RawError("Error", "undefined", MsgConnectionFailed)
DisconnectError == RawError("Error", "undefined", MsgDbError)

\* how a promise of the client settles
Resolves == [tag |-> "resolve"]
ConnectOutcomes == {Resolves, OpReject(ConnectionError)}
DisconnectOutcomes == {Resolves, OpReject(DisconnectError), OpThrow(DisconnectError)}

\* exits of the program body that uses the client
BodyExits ==
    {ExitSuccess(UowValue), ExitDie(PlainSerialization),
     ExitFail(PrismaError(KnownP2002))}
        \cup {ExitFail(e) : e \in DomainErrors}

ExitVoid == ExitSuccess([tag |-> "Value", id |-> "void"])

\* Effect.promise: a rejection is a defect
EffectPromise(outcome) ==
    IF outcome.tag = "resolve" THEN ExitVoid ELSE ExitDie(outcome.cause)

\* the acquire effect: sync(createClient), tap(promise($connect)), tap(logDebug)
AcquireExit(connectOutcome) == EffectPromise(connectOutcome)

\* a release kept whatever the acquire effect did
FinalizerAddedAlways(acquireExit) == TRUE

\* acquireRelease adds the release to the scope once acquire has succeeded
FinalizerAdded(acquireExit) == acquireExit.tag = "Success"

\* finalizers run on normal return only
RunsFinalizersOnSuccess(exit) == exit.tag = "Success"

\* closing a scope runs its finalizers whatever the exit
RunsFinalizers(exit) == TRUE

\* Effect.catchAllCause(() => Effect.void)
CatchAllCauseVoid(exit) == IF exit.tag = "Success" THEN exit ELSE ExitVoid

\* the release without its catchAllCause
ReleaseExitUncaught(disconnectOutcome) == EffectPromise(disconnectOutcome)

\* the release: promise($disconnect), tap(logDebug), catchAllCause(() => void)
ReleaseExit(disconnectOutcome) == CatchAllCauseVoid(EffectPromise(disconnectOutcome))

\* exit of an uninterruptible region, once interruptibility is restored: an
\* interruption that arrived meanwhile takes effect
LeaveUninterruptible(exit, interrupted) ==
    IF ~interrupted THEN exit
    ELSE IF exit.tag = "Failure"
         THEN ExitFailCause(CauseSequential(exit.cause, CauseInterrupt))
         ELSE ExitInterrupt

\* exit of the scoped program, given the exit before the scope closed and the
\* exit of the finalizer
ScopeCloseExit(primary, releaseExit) ==
    IF releaseExit.tag = "Success" THEN primary
    ELSE IF primary.tag = "Success" THEN releaseExit
    ELSE ExitFailCause(CauseSequential(primary.cause, releaseExit.cause))

\* the debug messages the release adds to the log
ReleaseLog(log, disconnectOutcome) ==
    IF disconnectOutcome.tag = "resolve" THEN Append(log, "Prisma disconnected") ELSE log

InitScope == InitWith({}) /\ ExecOff /\ ScopeOff /\ KindOff /\ ConfigOff /\ OthersOff

\* the scope closes with exit `primary`: its finalizer, if any, calls $disconnect
CloseScope(s, primary, finalizer) ==
    /\ primaryExit' = [primaryExit EXCEPT ![s] = primary]
    /\ IF finalizer /\ RunsFinalizers(primary)
       THEN /\ scopePc' = [scopePc EXCEPT ![s] = "releasing"]
            /\ disconnectCalls' = [disconnectCalls EXCEPT ![s] = @ + 1]
            /\ UNCHANGED scopeExit
       ELSE /\ scopePc' = [scopePc EXCEPT ![s] = "closed"]
            /\ scopeExit' = [scopeExit EXCEPT ![s] = primary]
            /\ UNCHANGED disconnectCalls

\* Effect.scoped(Effect.provide(program, layer)) starts: createClient, $connect()
ScopeStart(s) ==
    /\ scopePc[s] = "off"
    /\ scopePc' = [scopePc EXCEPT ![s] = "acquire"]
    /\ handshake' = [handshake EXCEPT ![s] = "pending"]
    /\ connectCalls' = [connectCalls EXCEPT ![s] = @ + 1]
    /\ UNCHANGED <<interruptPending, releaseInterrupted, bodyRan, disconnectCalls,
                   disconnected, primaryExit, scopeExit, scopeLog>>
    /\ UNCHANGED <<txVars, execVars, kindVars, configVars, otherVars, mapErrorArgs>>

\* the $connect promise settles; acquire is uninterruptible, an interruption that
\* arrived meanwhile takes effect now
ScopeConnectSettles(s, outcome) ==
    /\ scopePc[s] = "acquire"
    /\ LET acquired == AcquireExit(outcome)
       IN  IF acquired.tag = "Success"
           THEN /\ handshake' = [handshake EXCEPT ![s] = "ok"]
                /\ scopeLog' = [scopeLog EXCEPT ![s] = Append(@, "Prisma connected")]
                /\ IF interruptPending[s]
                   THEN /\ CloseScope(s, ExitInterrupt, FinalizerAdded(acquired))
                        /\ UNCHANGED bodyRan
                   ELSE /\ scopePc' = [scopePc EXCEPT ![s] = "body"]
                        /\ bodyRan' = [bodyRan EXCEPT ![s] = TRUE]
                        /\ UNCHANGED <<disconnectCalls, primaryExit, scopeExit>>
           ELSE /\ handshake' = [handshake EXCEPT ![s] = "failed"]
                /\ CloseScope(s, LeaveUninterruptible(acquired, interruptPending[s]),
                              FinalizerAdded(acquired))
                /\ UNCHANGED <<scopeLog, bodyRan>>
    /\ UNCHANGED <<interruptPending, releaseInterrupted, connectCalls, disconnected>>
    /\ UNCHANGED <<txVars, execVars, kindVars, configVars, otherVars, mapErrorArgs>>

\* the program body ends with `exit`
ScopeBodyEnds(s, exit) ==
    /\ scopePc[s] = "body"
    /\ CloseScope(s, exit, TRUE)
    /\ UNCHANGED <<handshake, interruptPending, releaseInterrupted, bodyRan,
                   connectCalls, disconnected, scopeLog>>
    /\ UNCHANGED <<txVars, execVars, kindVars, configVars, otherVars, mapErrorArgs>>

\* the fiber running the scoped program is interrupted: acquire and the release
\* of the scope are uninterruptible and run on, the body ends at once
ScopeInterrupt(s) ==
    /\ \/ /\ scopePc[s] = "acquire" /\ ~interruptPending[s]
          /\ interruptPending' = [interruptPending EXCEPT ![s] = TRUE]
          /\ UNCHANGED <<scopePc, disconnectCalls, primaryExit, scopeExit,
                         releaseInterrupted>>
       \/ /\ scopePc[s] = "body"
          /\ CloseScope(s, ExitInterrupt, TRUE)
          /\ UNCHANGED <<interruptPending, releaseInterrupted>>
       \/ /\ scopePc[s] = "releasing" /\ ~releaseInterrupted[s]
          /\ releaseInterrupted' = [releaseInterrupted EXCEPT ![s] = TRUE]
          /\ UNCHANGED <<scopePc, disconnectCalls, primaryExit, scopeExit,
                         interruptPending>>
    /\ UNCHANGED <<handshake, bodyRan, connectCalls, disconnected, scopeLog>>
    /\ UNCHANGED <<txVars, execVars, kindVars, configVars, otherVars, mapErrorArgs>>

\* the $disconnect promise settles (or $disconnect has thrown): the release ends
\* and an interruption that arrived while it ran takes effect
ScopeDisconnectSettles(s, outcome) ==
    /\ scopePc[s] = "releasing"
    /\ disconnected' = [disconnected EXCEPT ![s] =
           IF outcome.tag = "resolve" THEN "resolved" ELSE "failed"]
    /\ scopeLog' = [scopeLog EXCEPT ![s] = ReleaseLog(@, outcome)]
    /\ scopeExit' = [scopeExit EXCEPT ![s] =
           LeaveUninterruptible(ScopeCloseExit(primaryExit[s], ReleaseExit(outcome)),
                                releaseInterrupted[s])]
    /\ scopePc' = [scopePc EXCEPT ![s] = "closed"]
    /\ UNCHANGED <<handshake, interruptPending, releaseInterrupted, bodyRan,
                   connectCalls, disconnectCalls, primaryExit>>
    /\ UNCHANGED <<txVars, execVars, kindVars, configVars, otherVars, mapErrorArgs>>

ScopeStep(s) ==
    \/ ScopeStart(s)
    \/ \E outcome \in ConnectOutcomes : ScopeConnectSettles(s, outcome)
    \/ \E exit \in BodyExits : ScopeBodyEnds(s, exit)
    \/ ScopeInterrupt(s)
    \/ \E outcome \in DisconnectOutcomes : ScopeDisconnectSettles(s, outcome)

NextScope == \E s \in Scopes : ScopeStep(s)

SpecScope == InitScope /\ [][NextScope]_vars

(***************************************************************************)
(* errors.ts: parsePrismaErrorKind(cause).  A JavaScript value is         *)
(* described by what the function looks at: typeof cause, whether it is   *)
(* null, whether it has a code property, typeof code and the code; name   *)
(* and message are further properties the value may carry.                 *)
(***************************************************************************)
JsValue(jstype, isNull, hasCode, codeType, code, name, message) ==
    [tag |-> "Raw", jstype |-> jstype, isNull |-> isNull, hasCode |-> hasCode,
     codeType |-> codeType, code |-> code, name |-> name, message |-> message]

\* { code: <string> } with a name and a message
ObjectWithCode(code, name, message) ==
    JsValue("object", FALSE, TRUE, "string", code, name, message)

KnownCodes == {"P2002", "P2025", "P2003", "P2011", "P2006", "P2012", "P2014"}
OtherCodes == {"P9999", "p2002", "P2034", ""}

KindNames == {"PrismaClientKnownRequestError", "Error"}
KindMessages == {MsgDbError, MsgEmpty}

KindInputs ==
    {ObjectWithCode(c, n, m) : c \in KnownCodes \cup OtherCodes, n \in KindNames,
                               m \in KindMessages}
    \cup {JsValue("object", FALSE, TRUE, ct, "", n, m) :
              ct \in {"number", "object", "undefined"}, n \in KindNames,
              m \in KindMessages}
    \cup {JsValue("object", FALSE, FALSE, "undefined", "", n, m) :
              n \in KindNames, m \in KindMessages}
    \cup {JsValue("object", TRUE, FALSE, "undefined", "", "undefined", MsgEmpty),
          JsValue("undefined", FALSE, FALSE, "undefined", "", "undefined", MsgEmpty),
          JsValue("string", FALSE, FALSE, "undefined", "", "undefined", MsgEmpty),
          JsValue("number", FALSE, FALSE, "undefined", "", "undefined", MsgEmpty),
          JsValue("function", FALSE, TRUE, "string", "P2002", "Error", MsgEmpty)}

\* the switch without its P2012 label
parsePrismaErrorKindNoP2012(cause) ==
    IF /\ cause.jstype = "object"
       /\ ~cause.isNull
       /\ cause.hasCode
       /\ cause.codeType = "string"
    THEN CASE cause.code = "P2002" -> "UNIQUE_CONSTRAINT"
           [] cause.code = "P2025" -> "RECORD_NOT_FOUND"
           [] cause.code = "P2003" -> "FOREIGN_KEY_CONSTRAINT"
           [] cause.code = "P2011" -> "NULL_CONSTRAINT"
           [] cause.code = "P2006" -> "VALIDATION_ERROR"
           [] cause.code = "P2014" -> "RELATION_VIOLATION"
           [] OTHER -> "UNKNOWN"
    ELSE "UNKNOWN"

parsePrismaErrorKind(cause) ==
    IF /\ cause.jstype = "object"
       /\ ~cause.isNull
       /\ cause.hasCode
       /\ cause.codeType = "string"
    THEN CASE cause.code = "P2002" -> "UNIQUE_CONSTRAINT"
           [] cause.code = "P2025" -> "RECORD_NOT_FOUND"
           [] cause.code = "P2003" -> "FOREIGN_KEY_CONSTRAINT"
           [] cause.code = "P2011" -> "NULL_CONSTRAINT"
           [] cause.code \in {"P2006", "P2012"} -> "VALIDATION_ERROR"
           [] cause.code = "P2014" -> "RELATION_VIOLATION"
           [] OTHER -> "UNKNOWN"
    ELSE "UNKNOWN"

InitKind ==
    /\ InitWith({}) /\ ExecOff /\ ScopeOff /\ ConfigOff /\ OthersOff
    /\ kindInput \in KindInputs
    /\ kindResult = NoKind

\* parsePrismaErrorKind(kindInput) is called and returns
ParseKind ==
    /\ kindResult = NoKind
    /\ kindResult' = parsePrismaErrorKind(kindInput)
    /\ UNCHANGED kindInput
    /\ UNCHANGED <<txVars, execVars, scopeVars, configVars, otherVars, mapErrorArgs>>

NextKind == ParseKind

SpecKind == InitKind /\ [][NextKind]_vars

(***************************************************************************)
(* prisma-tx.ts: configureTransactions and getTransactionConfig called in *)
(* any order, the calls kept on record.                                    *)
(***************************************************************************)
\* getTransactionConfig(): ({ ...globalConfig })
getTransactionConfig(config) ==
    [retries |-> config.retries, baseDelay |-> config.baseDelay]

\* configureTransactions(update), its argument put on record
ConfigureLogged(update) ==
    /\ Len(configLog) < MaxConfigCalls
    /\ globalConfig' = MergeConfig(globalConfig, update)
    /\ configLog' = Append(configLog, update)
    /\ UNCHANGED <<pc, options, retry, recurrences, delay, txCalls, uowRuns, uow,
                   callback, uowExit, attemptExit, result, currentClientRef,
                   context, execs, lastSettle, rawRejected, txOptions>>
    /\ UNCHANGED <<configRead, execVars, scopeVars, kindVars, otherVars, mapErrorArgs>>

\* getTransactionConfig() is called and returns
ReadConfig ==
    /\ configRead' = [at |-> Len(configLog), config |-> getTransactionConfig(globalConfig)]
    /\ UNCHANGED <<txVars, configLog, execVars, scopeVars, kindVars, otherVars, mapErrorArgs>>

InitConfig == InitWith({}) /\ ComponentsOff

NextConfig ==
    \/ \E update \in ConfigUpdates : ConfigureLogged(update)
    \/ ReadConfig

SpecConfig == InitConfig /\ [][NextConfig]_vars

(***************************************************************************)
(* Properties.                                                             *)
(***************************************************************************)
\* withTransaction has returned to the task that called it
Returned(t) == pc[t] \in {"post", "end"}

\* the error of a typed failure
ErrorOf(exit) == FailureOf(exit)

\* a typed failure with a caller-defined error
DomainFailure(exit) == IsTypedFailure(exit) /\ ErrorOf(exit).tag = "Domain"

\* a typed failure with a PrismaError
PrismaFailure(exit) == IsTypedFailure(exit) /\ ErrorOf(exit).tag = "PrismaError"

\* a PrismaError failure whose raw cause is a transient request error
TransientFailure(exit) ==
    /\ PrismaFailure(exit)
    /\ isPrismaRequestError(ErrorOf(exit).cause)
    /\ isRetryablePrismaError(ErrorOf(exit).cause)

\* a domain error, or a PrismaError whose raw cause is not transient
NonTransientFailure(exit) ==
    \/ DomainFailure(exit)
    \/ PrismaFailure(exit) /\ ~isRetryablePrismaError(ErrorOf(exit).cause)

\* the call uses the default retry policy
DefaultPolicy(t) == ~options[t].retryPolicy.defined

\* C1: a domain error E raised by the unit of work is the typed failure of
\* withTransaction, exactly E: not wrapped in PrismaError, not passed to mapError,
\* with or without mapError and retryPolicy, and whatever else the cause of the
\* unit of work's exit holds next to E.
C1_DomainErrorUnchanged ==
    \A t \in Tasks :
        /\ (pc[t] = "resumed" /\ DomainFailure(uowExit[t])) =>
               attemptExit[t] = ExitFail(ErrorOf(uowExit[t]))
        /\ (Returned(t) /\ DomainFailure(uowExit[t])) =>
               result[t] = ExitFail(ErrorOf(uowExit[t]))

\* the finalizer of the failing unit of work died: E is delivered all the same
C1_Witness ==
    \E t \in Tasks :
        /\ Returned(t) /\ DomainFailure(uowExit[t])
        /\ uowExit[t].cause \in CompositeCauses
        /\ options[t].mapError /\ options[t].retryPolicy.defined
        /\ result[t] = ExitFail(CHOOSE e \in DomainErrors : TRUE)

\* C2: at any nesting depth a nested withTransaction opens no transaction:
\* $transaction is invoked once per attempt of the outermost call, and the nested
\* unit of work finds the TxMarker and runs on the enclosing transaction's client.
C2_NestedReusesTransaction ==
    \A t \in Tasks :
        /\ (uow[t].running /\ Len(uow[t].frames) > 0) =>
               /\ context[InnerFiber(t)].TxMarker
               /\ currentClientRef[InnerFiber(t)] = TxClient(t, recurrences[t] + 1)
               /\ execs[t]["in"].target \in {NoClient, TxClient(t, recurrences[t] + 1)}
        /\ pc[t] \in {"waiting", "resumed", "post", "end"} =>
               txCalls[t] = recurrences[t] + 1

C2_Witness ==
    \E t \in Tasks :
        /\ uow[t].running /\ Len(uow[t].frames) = MaxDepth
        /\ recurrences[t] = 1 /\ txCalls[t] = 2
        /\ execs[t]["in"].target = TxClient(t, 2)

\* C3: an exec before the transaction targets the base client, an exec inside the
\* unit of work targets the client $transaction handed over, an exec after
\* withTransaction returned targets the base client again.
C3_ExecFollowsScope ==
    \A t \in Tasks :
        /\ execs[t].pre.target \in {NoClient, BaseClient}
        /\ execs[t]["in"].target # NoClient =>
               /\ execs[t]["in"].target = TxClient(t, execs[t]["in"].call)
               /\ execs[t]["in"].call = txCalls[t]
        /\ execs[t].post.target \in {NoClient, BaseClient}

C3_Witness ==
    \E t \in Tasks :
        /\ pc[t] = "end" /\ IsTypedFailure(result[t])
        /\ execs[t].pre.target = BaseClient
        /\ execs[t]["in"].target = TxClient(t, txCalls[t])
        /\ execs[t].post.target = BaseClient

\* C4 as stated: under the default policy at most maxAttempts attempts are made,
\* maxAttempts being the configured `retries`.
C4_AtMostRetriesAttempts ==
    \A t \in Tasks :
        (DefaultPolicy(t) /\ retry[t].recurs >= 1) => txCalls[t] <= retry[t].recurs

\* C4 amended: under the default policy at most retries + 1 attempts are made (the
\* initial attempt and at most `retries` retries), and exactly retries + 1 when the
\* loop gives up on a transient failure.
C4_AtMostRetriesPlusOneAttempts ==
    \A t \in Tasks :
        DefaultPolicy(t) =>
            /\ txCalls[t] <= retry[t].recurs + 1
            /\ (Returned(t) /\ TransientFailure(attemptExit[t])) =>
                   txCalls[t] = retry[t].recurs + 1

C4_Witness ==
    \E t \in Tasks :
        /\ Returned(t) /\ DefaultPolicy(t) /\ TransientFailure(attemptExit[t])
        /\ retry[t].recurs = DefaultRetries
        /\ txCalls[t] = DefaultRetries + 1

\* C5 as stated: a first attempt that fails with a domain error or a non-transient
\* database failure is the only one: one $transaction call, one run of the unit of
\* work.
C5_OneCallOneRun ==
    \A t \in Tasks :
        (/\ pc[t] \in {"resumed", "post", "end"}
         /\ recurrences[t] = 0
         /\ NonTransientFailure(attemptExit[t])) =>
            txCalls[t] = 1 /\ uowRuns[t] = 1

\* C5 amended: such an attempt is the only one and nothing is retried after it;
\* $transaction is invoked once and the unit of work runs at most once: once when
\* the callback was invoked, not at all when $transaction rejected before that.
C5_OneCallAtMostOneRun ==
    \A t \in Tasks :
        /\ (/\ pc[t] \in {"resumed", "post", "end"}
            /\ recurrences[t] = 0
            /\ NonTransientFailure(attemptExit[t])) =>
               /\ txCalls[t] = 1
               /\ uowRuns[t] = IF uowExit[t] = NoExit THEN 0 ELSE 1
        /\ (pc[t] \in {"post", "end"} /\ NonTransientFailure(attemptExit[t])) =>
               txCalls[t] = recurrences[t] + 1
        /\ (pc[t] = "attempt" /\ recurrences[t] > 0) =>
               TransientFailure(attemptExit[t])

C5_Witness ==
    \E t \in Tasks :
        /\ Returned(t) /\ recurrences[t] = 0
        /\ options[t].retryPolicy.defined /\ retry[t].recurs >= 1
        /\ attemptExit[t] = ExitFail(PrismaError(KnownP2002))
        /\ txCalls[t] = 1 /\ uowRuns[t] = 0

\* C6: when an exec inside the unit of work fails with the transient cause P2034,
\* the loop ends only once the retries are used up, whether the failure surfaced
\* as a PrismaError or as the value of the operation's errorMapper.
C6_ExecTransientRetried ==
    \A t \in Tasks : \A hasErrCallback \in BOOLEAN :
        (Returned(t) /\ uowExit[t] = ExitFail(ExecCatch(KnownP2034, hasErrCallback))) =>
            recurrences[t] >= retry[t].recurs

\* C7: concurrent unrelated tasks do not see each other's client or marker: a
\* task's exec targets the base client outside its transaction and its own
\* transaction client inside, whatever the other tasks do, and every task opens a
\* transaction of its own.
C7_TasksIsolated ==
    \A t \in Tasks :
        /\ currentClientRef[OuterFiber(t)] = BaseClient
        /\ ~context[OuterFiber(t)].TxMarker
        /\ context[InnerFiber(t)].TxMarker = uow[t].running
        /\ currentClientRef[InnerFiber(t)] =
               IF uow[t].running THEN TxClient(t, txCalls[t]) ELSE BaseClient
        /\ execs[t].pre.target \in {NoClient, BaseClient}
        /\ execs[t]["in"].target \in {NoClient, TxClient(t, txCalls[t])}
        /\ execs[t].post.target \in {NoClient, BaseClient}
        /\ Returned(t) => txCalls[t] >= 1

C7_Witness ==
    \E t, u \in Tasks :
        /\ t # u
        /\ execs[t].pre.peerInTx /\ execs[t].pre.target = BaseClient
        /\ execs[t]["in"].peerInTx /\ execs[t]["in"].target = TxClient(t, 1)
        /\ execs[u]["in"].peerInTx /\ execs[u]["in"].target = TxClient(u, 1)
        /\ execs[u].post.peerInTx /\ execs[u].post.target = BaseClient

\* C8: once the task is cancelled, its unit of work issues no further exec and
\* does not go on to complete with a success value.
C8_CancelAbandonsWork ==
    [][\A t \in Tasks :
          pc[t] = "interrupted" =>
              /\ execs'[t] = execs[t]
              /\ (callback'[t].tag = "Resolve" => callback[t].tag = "Resolve")]_vars

\* C9: a retry loop works with the retry limit and the base delay that
\* globalConfig held when its withTransaction started, whatever
\* configureTransactions is called with meanwhile.
C9_LoopKeepsItsConfig ==
    \A t \in Tasks :
        DefaultPolicy(t) =>
            /\ recurrences[t] <= retry[t].recurs
            /\ (Returned(t) /\ TransientFailure(attemptExit[t])) =>
                   recurrences[t] = retry[t].recurs
            /\ (pc[t] = "attempt" /\ recurrences[t] > 0) =>
                   LET d == retry[t].baseDelay * Power(ExponentialFactor, recurrences[t] - 1)
                   IN  /\ (delay[t] + 1) * 100 > d * JitterMin
                       /\ delay[t] * 100 <= d * JitterMax

C9_Witness ==
    \E t \in Tasks :
        /\ pc[t] = "attempt" /\ DefaultPolicy(t)
        /\ retry[t] = RetryPolicyOf(NoOptions, defaultConfig)
        /\ globalConfig = [retries |-> 1, baseDelay |-> 2 * DefaultBaseDelay]
        /\ recurrences[t] = 2
        /\ delay[t] = 101

\* C10: when the loop ends with a PrismaError, the failure of withTransaction is
\* mapError of that error if mapError was supplied, and the PrismaError itself
\* otherwise.
C10_MapErrorOnPrismaError ==
    \A t \in Tasks :
        (Returned(t) /\ PrismaFailure(attemptExit[t])) =>
            result[t] = IF options[t].mapError
                        THEN ExitFail(MapErrorOf(ErrorOf(attemptExit[t])))
                        ELSE attemptExit[t]

C10_Witness ==
    \E t \in Tasks :
        /\ Returned(t) /\ options[t].mapError
        /\ result[t] = ExitFail(MapErrorOf(PrismaError(KnownP2002)))

\* the latest $transaction call of task t rejected with a raw error of the database
\* client while the task was waiting for it
RawRejection(t) ==
    /\ lastSettle[t].outcome \in {"rejected", "rollback"}
    /\ IsRawClientError(lastSettle[t].err)
    /\ ~lastSettle[t].cancelled

\* C11 as stated: when $transaction rejected with a raw request or validation error
\* and no mapError is supplied, withTransaction fails with a PrismaError.
C11_RawRejectionFailsCall ==
    \A t \in Tasks :
        (Returned(t) /\ rawRejected[t] /\ ~options[t].mapError) => PrismaFailure(result[t])

\* C11 amended: when $transaction rejects with a raw request or validation error,
\* that attempt fails in the typed channel with a PrismaError whose cause is that
\* same raw error; without mapError it is the failure of withTransaction, unless
\* the error is a transient request error and the schedule grants a retry.
C11_RawRejectionFailsAttempt ==
    \A t \in Tasks :
        RawRejection(t) =>
            /\ attemptExit[t] = ExitFail(PrismaError(lastSettle[t].err))
            /\ (Returned(t) /\ ~options[t].mapError) =>
                   result[t] = ExitFail(PrismaError(lastSettle[t].err))
            /\ (Returned(t) /\ RetryWhile(PrismaError(lastSettle[t].err))) =>
                   recurrences[t] = retry[t].recurs

C11_Witness ==
    \E t \in Tasks :
        /\ Returned(t) /\ ~options[t].mapError
        /\ lastSettle[t].err = ValidationErr
        /\ result[t] = ExitFail(PrismaError(ValidationErr))

\* C12: for both execs: when the operation resolves, the effect succeeds with its
\* value and errCallback is not invoked; when it rejects or throws with cause c and
\* errCallback is supplied, errCallback is invoked once with c and the failure is
\* its result; without errCallback the failure is a PrismaError whose cause is c.
C12_ExecOutcome ==
    execPc = "done" =>
        LET op == execCall.op
        IN  /\ op.tag = "resolve" =>
                   execOut = ExitSuccess(op.value) /\ errCallbackArgs = << >>
            /\ (op.tag # "resolve" /\ execCall.hasErrCallback) =>
                   /\ errCallbackArgs = <<op.cause>>
                   /\ execOut = ExitFail(ErrCallbackOf(op.cause))
            /\ (op.tag # "resolve" /\ ~execCall.hasErrCallback) =>
                   /\ errCallbackArgs = << >>
                   /\ IsTypedFailure(execOut)
                   /\ ErrorOf(execOut).tag = "PrismaError"
                   /\ ErrorOf(execOut).cause = op.cause

C12_Witness ==
    /\ execPc = "done"
    /\ execCall.via = "createExec" /\ execCall.hasErrCallback
    /\ execCall.op = OpThrow(KnownP2002)
    /\ execOut = ExitFail(ErrCallbackOf(KnownP2002))

\* C13: for a scope whose $connect succeeded, $disconnect is not called while the
\* scope is open and has been called exactly once as soon as the scope closes,
\* whether the program returned, failed or was interrupted; never twice.
C13_DisconnectOnceOnClose ==
    \A s \in Scopes :
        /\ disconnectCalls[s] <= 1
        /\ handshake[s] = "ok" =>
               /\ scopePc[s] \in {"acquire", "body"} => disconnectCalls[s] = 0
               /\ scopePc[s] \in {"releasing", "closed"} => disconnectCalls[s] = 1

C13_Witness ==
    \E s, u \in Scopes :
        /\ scopePc[s] = "closed" /\ handshake[s] = "ok"
        /\ primaryExit[s] = ExitInterrupt /\ bodyRan[s] /\ disconnectCalls[s] = 1
        /\ scopePc[u] = "closed" /\ handshake[u] = "ok"
        /\ IsTypedFailure(primaryExit[u]) /\ disconnectCalls[u] = 1

\* C14: when $connect fails, $disconnect is never called for that client, the
\* program body never runs and the scoped program ends in a failure that carries
\* the connect failure.
C14_ConnectFailureNoDisconnect ==
    \A s \in Scopes :
        handshake[s] = "failed" =>
            /\ disconnectCalls[s] = 0
            /\ ~bodyRan[s]
            /\ scopePc[s] = "closed"
            /\ scopeExit[s].tag = "Failure"
            /\ \/ scopeExit[s].cause = CauseDie(ConnectionError)
               \/ /\ scopeExit[s].cause.tag = "Sequential"
                  /\ scopeExit[s].cause.left = CauseDie(ConnectionError)

C14_Witness ==
    \E s \in Scopes :
        /\ handshake[s] = "failed" /\ connectCalls[s] = 1
        /\ scopeExit[s] = ExitDie(ConnectionError)

\* C15: when $disconnect fails during release, the exit of the scoped program is
\* the exit the program had before the scope closed, success or failure; when the
\* program was interrupted while the release ran, it is that exit interrupted: the
\* interruption alone for a success, the failure's cause followed by the
\* interruption for a failure.  The disconnect error is in neither.
C15_DisconnectFailureSwallowed ==
    \A s \in Scopes :
        (scopePc[s] = "closed" /\ disconnected[s] = "failed") =>
            IF ~releaseInterrupted[s]
            THEN scopeExit[s] = primaryExit[s]
            ELSE IF primaryExit[s].tag = "Success"
                 THEN scopeExit[s] = ExitInterrupt
                 ELSE scopeExit[s] =
                          ExitFailCause(CauseSequential(primaryExit[s].cause,
                                                        CauseInterrupt))

\* one program returned and one failed, the $disconnect of both failed; the
\* second was interrupted while its release ran
C15_Witness ==
    \E s, u \in Scopes :
        /\ scopePc[s] = "closed" /\ disconnected[s] = "failed"
        /\ ~releaseInterrupted[s]
        /\ scopeExit[s] = ExitSuccess(UowValue)
        /\ scopePc[u] = "closed" /\ disconnected[u] = "failed"
        /\ releaseInterrupted[u]
        /\ primaryExit[u] = ExitFail(PrismaError(KnownP2002))
        /\ scopeExit[u].cause.left = CauseFail(PrismaError(KnownP2002))

\* C16: the options object handed to $transaction, on every attempt, holds exactly
\* the keys among isolationLevel, timeout and maxWait that the caller supplied, each
\* with the caller's value; an option not supplied is absent, and mapError and
\* retryPolicy are never among the keys.
C16_TxOptionsVerbatim ==
    \A t \in Tasks :
        txOptions[t] # NotCalled =>
            /\ \A k \in TxOptionKeys :
                   IF options[t][k].defined
                   THEN k \in DOMAIN txOptions[t] /\ txOptions[t][k] = options[t][k].value
                   ELSE k \notin DOMAIN txOptions[t]
            /\ DOMAIN txOptions[t] \subseteq TxOptionKeys
            /\ "mapError" \notin DOMAIN txOptions[t]
            /\ "retryPolicy" \notin DOMAIN txOptions[t]

C16_Witness ==
    \E t \in Tasks :
        /\ txCalls[t] = 2
        /\ options[t].mapError /\ options[t].retryPolicy.defined
        /\ ~options[t].isolationLevel.defined
        /\ DOMAIN txOptions[t] = {"timeout", "maxWait"}
        /\ txOptions[t]["timeout"] = 0
        /\ txOptions[t]["maxWait"] = MaxWaitValue

\* the kind documented for every recognized code
CodeKinds ==
    [P2002 |-> "UNIQUE_CONSTRAINT", P2025 |-> "RECORD_NOT_FOUND",
     P2003 |-> "FOREIGN_KEY_CONSTRAINT", P2011 |-> "NULL_CONSTRAINT",
     P2006 |-> "VALIDATION_ERROR", P2012 |-> "VALIDATION_ERROR",
     P2014 |-> "RELATION_VIOLATION"]

\* C17: parsePrismaErrorKind returns a kind for every input; for an object with a
\* string code it is the kind documented for that code, whatever else the object
\* carries, and UNKNOWN for every other code and every other input.
C17_KindByCodeOnly ==
    kindResult # NoKind =>
        kindResult =
            IF /\ kindInput.jstype = "object" /\ ~kindInput.isNull
               /\ kindInput.hasCode /\ kindInput.codeType = "string"
               /\ kindInput.code \in DOMAIN CodeKinds
            THEN CodeKinds[kindInput.code]
            ELSE "UNKNOWN"

C17_Witness ==
    /\ kindInput = ObjectWithCode("P2012", "Error", MsgEmpty)
    /\ kindResult = "VALIDATION_ERROR"

\* among the first n calls on record, those that supplied `retries` and those that
\* supplied `baseDelay`
RetriesSuppliers(n) == {i \in 1..n : configLog[i].hasRetries}
BaseDelaySuppliers(n) == {i \in 1..n : configLog[i].hasBaseDelay}
\* the latest of a non-empty set of calls
Latest(calls) == CHOOSE i \in calls : \A j \in calls : j <= i
\* each field as the latest of the first n calls that supplied it left it
LatestSupplied(n) ==
    [retries |-> IF RetriesSuppliers(n) = {} THEN DefaultRetries
                 ELSE configLog[Latest(RetriesSuppliers(n))].retries,
     baseDelay |-> IF BaseDelaySuppliers(n) = {} THEN DefaultBaseDelay
                   ELSE configLog[Latest(BaseDelaySuppliers(n))].baseDelay]

\* C18: the config starts as retries = 3, baseDelay = 50; after any sequence of
\* configureTransactions calls each field of getTransactionConfig() is the value of
\* the latest call that supplied it, or its initial value when no call did.
C18_LatestSuppliedWins ==
    /\ globalConfig = LatestSupplied(Len(configLog))
    /\ configRead # NoConfigRead => configRead.config = LatestSupplied(configRead.at)

C18_Witness ==
    /\ Len(configLog) = 2 /\ configRead # NoConfigRead /\ configRead.at = 2
    /\ configLog[1].hasRetries /\ ~configLog[1].hasBaseDelay /\ configLog[1].retries = 1
    /\ ~configLog[2].hasRetries /\ configLog[2].hasBaseDelay
    /\ configLog[2].baseDelay = 2 * DefaultBaseDelay
    /\ configRead.config = [retries |-> 1, baseDelay |-> 2 * DefaultBaseDelay]

\* C19: a PrismaError raised inside a nested withTransaction that was given
\* mapError leaves that call as mapError of the error: when the unit of work ends
\* inside such a call, its failure is no PrismaError.
C19_NestedMapError ==
    [][\A t \in Tasks :
          (/\ uow[t].running /\ ~uow'[t].running
           /\ \E i \in 1..Len(uow[t].frames) : uow[t].frames[i]) =>
              ~PrismaFailure(uowExit'[t])]_vars

\* C20: the callback handed to $transaction resolves only when the unit of work
\* succeeded, and then with its value; when the unit of work ended in a typed
\* failure, a defect or an interruption the callback throws, so that the client
\* rolls back and never commits.
C20_CallbackRejectsUnlessSuccess ==
    \A t \in Tasks :
        /\ callback[t].tag = "Resolve" => uowExit[t] = ExitSuccess(callback[t].value)
        /\ (uowExit[t].tag = "Failure" /\ callback[t] # Idle) => callback[t].tag = "Throw"
        /\ lastSettle[t].outcome = "commit" => uowExit[t].tag = "Success"
        /\ (uowExit[t].tag = "Failure" /\ lastSettle[t] # NotSettled) =>
               lastSettle[t].outcome = "rollback"

C20_Witness ==
    \E t \in Tasks :
        /\ uowExit[t] = ExitInterrupt
        /\ lastSettle[t].outcome = "rollback"
        /\ lastSettle[t].err = ThrownCause(CauseInterrupt)

(***************************************************************************)
(* Compositions of the exported operations in the caller's program:       *)
(* TxMarker provided by the caller, withClient inside the unit of work,   *)
(* a fiber the unit of work detaches with Effect.forkDaemon.               *)
(***************************************************************************)
\* a client of the caller's own, neither the base client nor a transaction's
OtherClient == [kind |-> "other", task |-> 0, n |-> 0]

\* a forked fiber starts with its parent's FiberRef values (the context is one)
ForkInherit(refs, parent, child) == [refs EXCEPT ![child] = refs[parent]]

\* the caller wraps its program in Effect.provideService(TxMarker, true)
ProvideMarker(t) ==
    /\ pc[t] = "pre"
    /\ ~context[OuterFiber(t)].TxMarker
    /\ context' = [context EXCEPT ![OuterFiber(t)] = ProvideTxMarker(@)]
    /\ UNCHANGED <<globalConfig, pc, options, retry, recurrences, delay,
                   txCalls, uowRuns, uow, callback, uowExit, attemptExit, result,
                   currentClientRef, execs, lastSettle, rawRejected, txOptions>>
    /\ UNCHANGED componentVars

\* withTransaction(effect, opts) called with the TxMarker present: the effect,
\* here one exec, runs directly on the calling fiber, which waits for the
\* promise of the database operation
BeginNested(t, opts) ==
    /\ pc[t] = "begin"
    /\ alreadyInTransaction(context[OuterFiber(t)])
    /\ options' = [options EXCEPT ![t] = opts]
    /\ retry' = [retry EXCEPT ![t] = RetryPolicyOf(opts, globalConfig)]
    /\ execs' = LogExec(t, "in", OuterFiber(t))
    /\ pc' = [pc EXCEPT ![t] = "nested"]
    /\ UNCHANGED <<globalConfig, recurrences, delay, txCalls, uowRuns, uow,
                   callback, uowExit, attemptExit, currentClientRef, context,
                   lastSettle, rawRejected, txOptions, result>>
    /\ UNCHANGED componentVars

\* the effect of the nested call ends with `exit` and the call returns it
NestedEnds(t, exit) ==
    /\ pc[t] = "nested"
    /\ result' = [result EXCEPT ![t] = NestedReturn(exit, options[t].mapError)]
    /\ pc' = [pc EXCEPT ![t] = "post"]
    /\ UNCHANGED <<globalConfig, options, retry, recurrences, delay, txCalls,
                   uowRuns, uow, callback, uowExit, attemptExit, currentClientRef,
                   context, execs, lastSettle, rawRejected, txOptions>>
    /\ UNCHANGED componentVars

\* withClient(c, ...) entered inside the unit of work: Effect.locally sets the
\* FiberRef and keeps the value to restore
UowWithClient(t, c) ==
    /\ UowRunning(t) /\ Len(uow[t].scopes) < MaxScopeDepth
    /\ currentClientRef' = Locally(currentClientRef, InnerFiber(t), c)
    /\ uow' = [uow EXCEPT ![t].scopes = Append(@, currentClientRef[InnerFiber(t)])]
    /\ UNCHANGED <<globalConfig, pc, options, retry, recurrences, delay,
                   txCalls, uowRuns, callback, uowExit, attemptExit, result,
                   context, execs, lastSettle, rawRejected, txOptions>>
    /\ UNCHANGED componentVars

\* the body of the innermost withClient completes: the FiberRef is restored
UowWithClientExit(t) ==
    /\ UowRunning(t) /\ Len(uow[t].scopes) > 0
    /\ currentClientRef' =
           LocallyExit(currentClientRef, InnerFiber(t), uow[t].scopes[Len(uow[t].scopes)])
    /\ uow' = [uow EXCEPT ![t].scopes = SubSeq(@, 1, Len(@) - 1)]
    /\ UNCHANGED <<globalConfig, pc, options, retry, recurrences, delay,
                   txCalls, uowRuns, callback, uowExit, attemptExit, result,
                   context, execs, lastSettle, rawRejected, txOptions>>
    /\ UNCHANGED componentVars

\* Effect.forkDaemon(...) inside the unit of work: the new fiber is not a child
\* of the unit of work's fiber and does not end with it
UowForkDaemon(t) ==
    /\ UowRunning(t) /\ daemon[t] = "none"
    /\ daemon' = [daemon EXCEPT ![t] = "running"]
    /\ currentClientRef' = ForkInherit(currentClientRef, InnerFiber(t), DaemonFiber(t))
    /\ context' = ForkInherit(context, InnerFiber(t), DaemonFiber(t))
    /\ UNCHANGED <<globalConfig, pc, options, retry, recurrences, delay,
                   txCalls, uowRuns, uow, callback, uowExit, attemptExit, result,
                   execs, lastSettle, rawRejected, txOptions>>
    /\ UNCHANGED <<execVars, scopeVars, kindVars, configVars, withClientVars,
                   retryableVars, mapErrorArgs, slept>>

\* the detached fiber calls exec, whenever it is scheduled
DaemonExec(t) ==
    /\ daemon[t] = "running"
    /\ execs' = LogExec(t, "daemon", DaemonFiber(t))
    /\ daemon' = [daemon EXCEPT ![t] = "done"]
    /\ UNCHANGED <<globalConfig, pc, options, retry, recurrences, delay,
                   txCalls, uowRuns, uow, callback, uowExit, attemptExit, result,
                   currentClientRef, context, lastSettle, rawRejected, txOptions>>
    /\ UNCHANGED <<execVars, scopeVars, kindVars, configVars, withClientVars,
                   retryableVars, mapErrorArgs, slept>>

NestedExits == {ExitSuccess(UowValue), ExitFail(PrismaError(KnownP2002))}

TaskStepCompose(t) ==
    \/ ProvideMarker(t)
    \/ ExecOuter(t)
    \/ Begin(t, NoOptions)
    \/ BeginNested(t, NoOptions)
    \/ \E exit \in NestedExits : NestedEnds(t, exit)
    \/ TxCall(t)
    \/ TxOpen(t)
    \/ UowExec(t)
    \/ UowExecOk(t)
    \/ UowWithClient(t, OtherClient)
    \/ UowWithClientExit(t)
    \/ UowForkDaemon(t)
    \/ DaemonExec(t)
    \/ \E e \in DomainErrors : UowFails(t, e)
    \/ \E cause \in ParallelCauses : UowFailsWith(t, cause)
    \/ UowSucceeds(t)
    \/ \E commit \in CommitOutcomes : TxSettle(t, commit)
    \/ \E ms \in RetryDelays(t) : Retry(t, ms)
    \/ Deliver(t)
    \/ Interrupt(t)

NextCompose == \E t \in Tasks : TaskStepCompose(t)

SpecCompose == Init /\ [][NextCompose]_vars

\* C21: whenever exec runs with the TxMarker present in its fiber's context,
\* the client it targets is the client of the $transaction call in whose
\* callback the marker was installed.
C21_MarkerImpliesTxClient ==
    \A t \in Tasks : \A phase \in DOMAIN execs[t] :
        execs[t][phase].marker =>
            /\ execs[t][phase].target.kind = "tx"
            /\ execs[t][phase].target.task = t
            /\ execs[t][phase].target.n >= 1

\* C22: no exec targets the client of a $transaction call that has settled.
C22_NoExecAfterSettle ==
    \A t \in Tasks : \A phase \in DOMAIN execs[t] : ~execs[t][phase].settled

(***************************************************************************)
(* prisma-client.ts: PrismaService.withClient(c, body) on one fiber, with *)
(* nested scopes.  body may call exec, open a nested withClient, and      *)
(* complete, fail or be interrupted.                                       *)
(***************************************************************************)
ScopeClients == {BaseClient, TxClient(1, 1), OtherClient}
ScopeExits == {"completes", "fails", "cancelled"}
\* withClient(c, ...): Effect.locally keeps the value to restore
WithClientEnter(c) ==
    /\ Len(clientScopes) < MaxScopeDepth
    /\ clientScopes' =
           Append(clientScopes, [client |-> c, previous |-> currentClientRef[ExecFiber]])
    /\ currentClientRef' = Locally(currentClientRef, ExecFiber, c)
    /\ lastScopeExit' = NoScopeExit
    /\ UNCHANGED scopedExec

\* exec in the innermost open scope, or outside every scope
WithClientExec ==
    /\ scopedExec' =
           [target |-> ExecTarget(currentClientRef, ExecFiber),
            scopes |-> clientScopes,
            after |-> lastScopeExit]
    /\ UNCHANGED <<clientScopes, lastScopeExit, currentClientRef>>

\* the body of the innermost scope completes, fails or is interrupted
WithClientExit(how) ==
    /\ Len(clientScopes) > 0
    /\ currentClientRef' =
           LocallyExit(currentClientRef, ExecFiber, clientScopes[Len(clientScopes)].previous)
    /\ lastScopeExit' = [how |-> how, client |-> clientScopes[Len(clientScopes)].client]
    /\ clientScopes' = SubSeq(clientScopes, 1, Len(clientScopes) - 1)
    /\ UNCHANGED scopedExec

InitWithClient ==
    /\ InitWith({})
    /\ ExecOff /\ ScopeOff /\ KindOff /\ ConfigOff /\ RetryableOff /\ DaemonOff /\ SleptOff
    /\ mapErrorArgs = [t \in Tasks |-> << >>]
    /\ clientScopes = << >>
    /\ scopedExec = NoScopedExec
    /\ lastScopeExit = NoScopeExit

NextWithClient ==
    /\ \/ \E c \in ScopeClients : WithClientEnter(c)
       \/ WithClientExec
       \/ \E how \in ScopeExits : WithClientExit(how)
    /\ UNCHANGED <<globalConfig, pc, options, retry, recurrences, delay, txCalls,
                   uowRuns, uow, callback, uowExit, attemptExit, result, context,
                   execs, lastSettle, rawRejected, txOptions>>
    /\ UNCHANGED <<execVars, scopeVars, kindVars, configVars, retryableVars,
                   daemon, mapErrorArgs, slept>>

SpecWithClient == InitWithClient /\ [][NextWithClient]_vars

\* the client the innermost of `scopes` asked for; the base client outside them
RequestedClient(scopes) ==
    IF scopes = << >> THEN BaseClient ELSE scopes[Len(scopes)].client

\* C23: every exec targets the client of the innermost withClient scope open
\* around it (the base client outside every scope), and whenever a scope has
\* been left, however its body ended, the active client is again the one of the
\* enclosing scope.
C23_WithClientDynamicExtent ==
    /\ scopedExec # NoScopedExec =>
           scopedExec.target = RequestedClient(scopedExec.scopes)
    /\ ExecTarget(currentClientRef, ExecFiber) = RequestedClient(clientScopes)

\* after a nested scope over the transaction client was interrupted, exec in
\* the enclosing scope over another client targets that other client
C23_Witness ==
    /\ scopedExec # NoScopedExec
    /\ scopedExec.after = [how |-> "cancelled", client |-> TxClient(1, 1)]
    /\ Len(scopedExec.scopes) = 1
    /\ scopedExec.scopes[1].client = OtherClient
    /\ scopedExec.target = OtherClient
    /\ clientScopes = << >>
    /\ lastScopeExit.how = "fails"
    /\ ExecTarget(currentClientRef, ExecFiber) = BaseClient

\* the value the latest $transaction call rejected with stands for a transient
\* database failure: a retryable request error, raw or inside a PrismaError the
\* unit of work failed with
TransientRejection(err) ==
    \/ /\ err.tag = "Raw"
       /\ isPrismaRequestError(err) /\ isRetryablePrismaError(err)
    \/ /\ err.tag = "DomainError" /\ err.error.tag = "PrismaError"
       /\ isPrismaRequestError(err.error.cause) /\ isRetryablePrismaError(err.error.cause)

\* the raw error behind such a rejection
RejectionCause(err) == IF err.tag = "DomainError" THEN err.error.cause ELSE err

\* the retry loop of task t has used every recurrence its schedule grants
Exhausted(t) ==
    recurrences[t] >= 1 /\ recurrences[t] = ScheduleOf(retry[t]).recurs

\* C24: when withTransaction has returned after its last granted attempt failed
\* with a transient database failure, its failure is the PrismaError of that last
\* attempt's rejection, or mapError applied to it when mapError was supplied.
C24_LastAttemptErrorDelivered ==
    \A t \in Tasks :
        (/\ Returned(t) /\ Exhausted(t)
         /\ lastSettle[t].call = txCalls[t]
         /\ TransientRejection(lastSettle[t].err)) =>
            /\ IsTypedFailure(result[t])
            /\ IF options[t].mapError
               THEN /\ ErrorOf(result[t]).tag = "Mapped"
                    /\ ErrorOf(result[t]).by = "mapError"
                    /\ ErrorOf(result[t]).of.tag = "PrismaError"
                    /\ ErrorOf(result[t]).of.cause = RejectionCause(lastSettle[t].err)
               ELSE /\ ErrorOf(result[t]).tag = "PrismaError"
                    /\ ErrorOf(result[t]).cause = RejectionCause(lastSettle[t].err)

\* the first attempt ran the unit of work and failed with P2034, the second and
\* last was rejected with a deadlock: mapError of the deadlock's PrismaError is
\* delivered
C24_Witness ==
    \E t \in Tasks :
        /\ Returned(t) /\ Exhausted(t) /\ options[t].mapError
        /\ txCalls[t] = 2 /\ uowRuns[t] = 1
        /\ lastSettle[t].call = 2 /\ lastSettle[t].outcome = "rejected"
        /\ lastSettle[t].err = UnknownDeadlock
        /\ result[t] = ExitFail(MapErrorOf(PrismaError(UnknownDeadlock)))

\* C25: options.mapError is invoked at most once per withTransaction call, and
\* only with the failure the call ends with: never before the call has returned
\* (so never with the failure of an attempt that is retried), and never when the
\* call succeeds.
C25_MapErrorOnceAtEnd ==
    \A t \in Tasks :
        /\ Len(mapErrorArgs[t]) <= 1
        /\ ~Returned(t) => mapErrorArgs[t] = << >>
        /\ (Returned(t) /\ result[t].tag = "Success") => mapErrorArgs[t] = << >>
        /\ mapErrorArgs[t] # << >> =>
               /\ options[t].mapError
               /\ mapErrorArgs[t][1] = ErrorOf(attemptExit[t])
               /\ result[t] = ExitFail(MapErrorOf(mapErrorArgs[t][1]))

\* after one attempt failed and was retried, the second failed for good: mapError
\* was invoked once, with the second failure
C25_Witness ==
    \E t \in Tasks :
        /\ Returned(t) /\ recurrences[t] = 1 /\ txCalls[t] = 2 /\ uowRuns[t] = 1
        /\ lastSettle[t].outcome = "rejected" /\ lastSettle[t].err = UnknownDeadlock
        /\ mapErrorArgs[t] = <<PrismaError(UnknownDeadlock)>>

\* the unit of work of task t's latest attempt succeeded and its $transaction
\* call then rejected, while the task was waiting for it
CommitRejected(t) ==
    /\ uowExit[t].tag = "Success"
    /\ lastSettle[t].call = txCalls[t]
    /\ lastSettle[t].outcome = "rollback"
    /\ ~lastSettle[t].cancelled

\* C26: withTransaction succeeds only when its latest $transaction call resolved.
\* When the unit of work succeeded and the call then rejected, the attempt fails
\* as the rejection is classified, with the PrismaError of a request or
\* validation error and with a defect holding any other error, and the call does
\* not return the unit of work's value; when that rejection is transient and
\* the schedule grants a recurrence, the task does not return: its next step is a
\* retry, unless its caller interrupts it first, and the retry calls $transaction
\* again and runs the unit of work from the start on the new call's client.
C26_SuccessOnlyIfResolved ==
    /\ [](\A t \in Tasks :
            /\ (Returned(t) /\ result[t].tag = "Success") =>
                   /\ lastSettle[t].outcome = "commit"
                   /\ lastSettle[t].call = txCalls[t]
            /\ (pc[t] \in {"resumed", "post", "end"} /\ CommitRejected(t)) =>
                   IF IsRawClientError(lastSettle[t].err)
                   THEN /\ PrismaFailure(attemptExit[t])
                        /\ ErrorOf(attemptExit[t]).cause = lastSettle[t].err
                   ELSE attemptExit[t] = ExitDie(lastSettle[t].err)
            /\ (Returned(t) /\ CommitRejected(t)) => result[t].tag = "Failure")
    /\ [][\A t \in Tasks :
            /\ (/\ pc[t] = "resumed" /\ pc'[t] # "resumed"
                /\ CommitRejected(t) /\ TransientRejection(lastSettle[t].err)
                /\ recurrences[t] < retry[t].recurs) =>
                   /\ pc'[t] \in {"attempt", "interrupted"}
                   /\ pc'[t] = "attempt" => recurrences'[t] = recurrences[t] + 1
            /\ (pc[t] = "attempt" /\ pc'[t] = "waiting") =>
                   txCalls'[t] = txCalls[t] + 1
            /\ (callback[t] = Called /\ callback'[t].tag = "Body") =>
                   /\ uowRuns'[t] = uowRuns[t] + 1
                   /\ uow'[t] = FreshUow
                   /\ currentClientRef'[InnerFiber(t)] = TxClient(t, txCalls[t])]_vars

\* both $transaction calls invoked the callback, one of them rejected with a
\* client error after the unit of work had succeeded, the second committed
C26_Witness ==
    \E t \in Tasks :
        /\ Returned(t) /\ result[t] = ExitSuccess(UowValue)
        /\ txCalls[t] = 2 /\ uowRuns[t] = 2 /\ recurrences[t] = 1
        /\ rawRejected[t]
        /\ execs[t]["in"].target = TxClient(t, 2)
        /\ lastSettle[t].outcome = "commit"

\* the unit of work of task t's latest attempt ended with a cause that holds no
\* typed failure, and the task was waiting when its $transaction call settled
UntypedUowFailure(t) ==
    /\ uowExit[t].tag = "Failure" /\ ~IsTypedFailure(uowExit[t])
    /\ lastSettle[t].call = txCalls[t]
    /\ lastSettle[t].outcome = "rollback"
    /\ ~lastSettle[t].cancelled

\* C27: when the unit of work ends with a defect or an interruption, the attempt
\* and withTransaction end with that same cause: no typed failure, no PrismaError,
\* mapError is not invoked, and no retry follows the attempt: the task's next step
\* returns that cause, unless its caller interrupts it first.
C27_DefectPassesThrough ==
    /\ [](\A t \in Tasks :
            /\ (pc[t] \in {"resumed", "post", "end"} /\ UntypedUowFailure(t)) =>
                   attemptExit[t] = uowExit[t]
            /\ (Returned(t) /\ UntypedUowFailure(t)) =>
                   /\ result[t] = uowExit[t]
                   /\ mapErrorArgs[t] = << >>)
    /\ [][\A t \in Tasks :
            (pc[t] = "resumed" /\ UntypedUowFailure(t)) =>
                /\ pc'[t] \in {"resumed", "post", "interrupted"}
                /\ recurrences'[t] = recurrences[t]]_vars

\* the unit of work died with an error whose message reads like a serialization
\* failure, under mapError and a retry policy with recurrences left
C27_Witness ==
    \E t \in Tasks :
        /\ Returned(t) /\ UntypedUowFailure(t)
        /\ options[t].mapError /\ options[t].retryPolicy.defined
        /\ recurrences[t] = 0 /\ retry[t].recurs >= 1
        /\ isRetryablePrismaError(PlainSerialization)
        /\ result[t] = ExitDie(PlainSerialization)

\* the latest $transaction call of task t rejected, while the task was waiting,
\* with a value that is no DomainError wrapper, no Cause and, by its name, no
\* request or validation error
OtherRejection(t) ==
    /\ lastSettle[t].call = txCalls[t]
    /\ lastSettle[t].outcome \in {"rejected", "rollback"}
    /\ ~lastSettle[t].cancelled
    /\ lastSettle[t].err.tag = "Raw"
    /\ ~isPrismaRequestError(lastSettle[t].err)
    /\ ~isPrismaValidationError(lastSettle[t].err)

\* C28: when $transaction rejects with such a value, the attempt and
\* withTransaction end with a defect carrying the value itself: no PrismaError,
\* mapError is not invoked, and no retry follows, whatever the value's code and
\* message: the task's next step returns the defect, unless its caller interrupts
\* it first.
C28_OtherRejectionIsDefect ==
    /\ [](\A t \in Tasks :
            /\ (pc[t] \in {"resumed", "post", "end"} /\ OtherRejection(t)) =>
                   attemptExit[t] = ExitDie(lastSettle[t].err)
            /\ (Returned(t) /\ OtherRejection(t)) =>
                   /\ result[t] = ExitDie(lastSettle[t].err)
                   /\ mapErrorArgs[t] = << >>)
    /\ [][\A t \in Tasks :
            (pc[t] = "resumed" /\ OtherRejection(t)) =>
                /\ pc'[t] \in {"resumed", "post", "interrupted"}
                /\ recurrences'[t] = recurrences[t]
                /\ txCalls'[t] = txCalls[t]]_vars

\* $transaction rejected, before invoking the callback, with a plain Error whose
\* message satisfies the retryability predicate; mapError and a retry policy
\* with recurrences left were supplied
C28_Witness ==
    \E t \in Tasks :
        /\ Returned(t) /\ OtherRejection(t)
        /\ lastSettle[t].outcome = "rejected" /\ uowRuns[t] = 0 /\ txCalls[t] = 1
        /\ lastSettle[t].err = PlainSerialization
        /\ isRetryablePrismaError(lastSettle[t].err)
        /\ options[t].mapError /\ options[t].retryPolicy.defined
        /\ retry[t].recurs >= 1
        /\ result[t] = ExitDie(PlainSerialization)

(***************************************************************************)
(* The delays of the default retry policy: configureTransactions sets any *)
(* baseDelay, the default number of retries is kept, and every attempt    *)
(* fails with a transient request error.                                   *)
(***************************************************************************)
BackoffBaseDelays == {0, DefaultBaseDelay, 2 * DefaultBaseDelay}

BackoffUpdates ==
    {[hasRetries |-> FALSE, retries |-> 0, hasBaseDelay |-> TRUE, baseDelay |-> b] :
        b \in BackoffBaseDelays}

TaskStepBackoff(t) ==
    \/ ExecOuter(t)
    \/ Begin(t, NoOptions)
    \/ TxCall(t)
    \/ \E raw \in {KnownP2034, UnknownDeadlock, DuckP2034} : TxOpenReject(t, raw)
    \/ \E ms \in RetryDelays(t) : RetryRecorded(t, ms)
    \/ Deliver(t)

NextBackoff ==
    \/ \E update \in BackoffUpdates : Configure(update)
    \/ \E t \in Tasks : TaskStepBackoff(t)

SpecBackoff == Init /\ [][NextBackoff]_vars

\* task t takes the step that grants it one more recurrence
RetryStep(t) == recurrences'[t] = recurrences[t] + 1

\* the first delay is the base delay of the task's schedule, jittered
FirstDelayFromBase(t) ==
    /\ (delay'[t] + 1) * 100 > retry[t].baseDelay * JitterMin
    /\ delay'[t] * 100 <= retry[t].baseDelay * JitterMax

\* C29 as stated: under the default retry policy the first delay derives from
\* baseDelay and every later delay is strictly greater than the one before it.
C29_DelaysStrictlyIncrease ==
    [][\A t \in Tasks :
        (DefaultPolicy(t) /\ RetryStep(t)) =>
            IF recurrences[t] = 0
            THEN FirstDelayFromBase(t)
            ELSE slept'[t] > slept[t]]_vars

\* C29 amended: the first delay derives from baseDelay; every later delay is
\* strictly greater than the one before it when baseDelay is positive, and every
\* delay is zero when baseDelay is zero.
C29_DelaysIncreaseFromPositiveBase ==
    [][\A t \in Tasks :
        (DefaultPolicy(t) /\ RetryStep(t)) =>
            /\ recurrences[t] = 0 => FirstDelayFromBase(t)
            /\ slept'[t] = delay'[t]
            /\ (recurrences[t] >= 1 /\ retry[t].baseDelay > 0) => slept'[t] > slept[t]
            /\ retry[t].baseDelay = 0 => delay'[t] = 0]_vars

\* the third sleep of a loop over baseDelay 50 lasts 161 ms: a factor of 0.805
C29_Witness ==
    \E t \in Tasks :
        /\ DefaultPolicy(t) /\ pc[t] = "attempt"
        /\ retry[t].baseDelay = DefaultBaseDelay
        /\ recurrences[t] = 3
        /\ delay[t] = 161 /\ slept[t] = 161

(***************************************************************************)
(* prisma-tx.ts: isRetryablePrismaError applied to one value.  The value's *)
(* message is a JavaScript value of its own: a string, undefined or null.  *)
(***************************************************************************)
JsString(text) == [kind |-> "string", text |-> text]
JsUndefined == [kind |-> "undefined", text |-> << >>]
JsNull == [kind |-> "null", text |-> << >>]

MsgCouldNot ==
    <<"E","R","R","O","R",":"," ","C","o","u","l","d"," ","n","o","t"," ",
      "s","e","r","i","a","l","i","z","e"," ","a","c","c","e","s","s">>
MsgSerialize == <<"c","a","n","n","o","t"," ","s","e","r","i","a","l","i","z","e">>
MsgDeadLock == <<"d","e","a","d"," ","l","o","c","k">>

RetryableMessages ==
    {JsUndefined, JsNull}
        \cup {JsString(m) : m \in {MsgDbError, MsgDeadlock, MsgSerialization,
                                    MsgCouldNot, MsgSerialize, MsgDeadLock}}
RetryableCodes == {"P2034", "P2002", "p2034", "undefined"}
RetryableNames == {"PrismaClientKnownRequestError", "Error"}

\* a PrismaError built from a value of the database client: an object of its own,
\* with the name PrismaError, no code, and the message the constructor gave it
WrappedInputs == {PrismaError(c) : c \in {UnknownDeadlock, KnownP2034, NullValue}}

\* objects with every combination of name, code and message; null, undefined
\* and a string that reads like a deadlock report
RetryableInputs ==
    {[jstype |-> "object", name |-> n, code |-> c, message |-> m] :
        n \in RetryableNames, c \in RetryableCodes, m \in RetryableMessages}
        \cup {[jstype |-> t, name |-> "undefined", code |-> "undefined",
               message |-> JsUndefined] : t \in {"null", "undefined"}}
        \cup {[jstype |-> "string", name |-> "undefined", code |-> "undefined",
               message |-> JsString(MsgDeadlock)]}

\* String(message ?? "")
MessageString(message) ==
    IF message.kind \in {"undefined", "null"} THEN MsgEmpty ELSE message.text

\* the fields the predicates read from the value
ReadFailure(v) ==
    IF v \in WrappedInputs THEN v
    ELSE RawValue(v.jstype, FALSE, v.name, v.code, MessageString(v.message))

InitRetryable ==
    /\ InitWith({})
    /\ ExecOff /\ ScopeOff /\ KindOff /\ ConfigOff /\ WithClientOff /\ DaemonOff /\ SleptOff
    /\ mapErrorArgs = [t \in Tasks |-> << >>]
    /\ retryableInput \in RetryableInputs \cup WrappedInputs
    /\ retryableResult = NoRetryableResult

TestRetryable ==
    /\ retryableResult = NoRetryableResult
    /\ retryableResult' =
           [tag |-> "Returned", value |-> isRetryablePrismaError(ReadFailure(retryableInput))]
    /\ UNCHANGED <<txVars, execVars, scopeVars, kindVars, configVars, withClientVars,
                   retryableInput, daemon, mapErrorArgs, slept>>

NextRetryable == TestRetryable

SpecRetryable == InitRetryable /\ [][NextRetryable]_vars

\* the text in lower case
LowerText(text) == [i \in 1..Len(text) |-> ToLower(text[i])]

\* `needle` occurs in `text`, letter case aside
ContainsIgnoringCase(text, needle) ==
    \E i \in 1..Len(text) :
        /\ i + Len(needle) - 1 <= Len(text)
        /\ SubSeq(LowerText(text), i, i + Len(needle) - 1) = LowerText(needle)

\* the text of a message: empty when the value has none
TextOf(v) ==
    IF v \in WrappedInputs THEN v.message
    ELSE IF v.message.kind = "string" THEN v.message.text ELSE << >>

\* an object that is not null
IsNonNullObject(v) == v \in WrappedInputs \/ v.jstype = "object"

\* the code of the value is P2034
HasCodeP2034(v) == v \notin WrappedInputs /\ v.code = "P2034"

\* C30: isRetryablePrismaError returns true exactly for an object (not null)
\* whose code is P2034 or whose message contains "serialization", "deadlock" or
\* "could not serialize access", letter case aside; it returns false for every
\* other value.
C30_RetryableExactly ==
    retryableResult # NoRetryableResult =>
        (retryableResult.value <=>
            /\ IsNonNullObject(retryableInput)
            /\ \/ HasCodeP2034(retryableInput)
               \/ ContainsIgnoringCase(TextOf(retryableInput), PatSerialization)
               \/ ContainsIgnoringCase(TextOf(retryableInput), PatDeadlock)
               \/ ContainsIgnoringCase(TextOf(retryableInput), PatCouldNot))

\* an object with no code whose message matches the third pattern only, in
\* mixed case: retryable
C30_Witness ==
    /\ retryableInput =
           [jstype |-> "object", name |-> "Error", code |-> "undefined",
            message |-> JsString(MsgCouldNot)]
    /\ retryableResult = [tag |-> "Returned", value |-> TRUE]

====
